---- MODULE Spec2Model ----
(***************************************************************************)
(* A model of the binary-format and text-segmentation engine of mdtext:    *)
(* the keystream cipher and its key search (core/decryptor.py), the        *)
(* indexed text codec (Encryptor.build_mod, CardModule._progressive_       *)
(* processing), the Pidx table decoder (core/part_parser.py) and the brace *)
(* annotator (core/brace_utils.py, MainWindow._extract_top_level_segments),*)
(* the Part table and its remapping (core/part_parser.py,                  *)
(* core/card_parser.py), build_braced (core/build_braced.py), the key      *)
(* sources of the decode pass and of the build (core/asset_unpacker.py,    *)
(* core/encryptor.py), the editor (gui/main_window.py, core/parser.py),    *)
(* the effect counter (count_top_level_braces) and the merge of the        *)
(* community script (utils/_CARD_merge+calc_index.py).                     *)
(*                                                                         *)
(* Byte buffers are sequences of numbers in 0..255, strings are sequences  *)
(* of code points.  Each component has its own specification (SpecCipher,  *)
(* SpecCodec, SpecPidx, SpecBrace, SpecPart, SpecRemap, SpecBraced,        *)
(* SpecKeys, SpecEdit, SpecCount); the variables of the other components   *)
(* stay at their initial values.                                           *)
(***************************************************************************)
EXTENDS Integers, Sequences, FiniteSets, TLC

VARIABLES
    \* ---- cipher (core/decryptor.py)
    plain,      \* the plaintext buffer handed to encrypt_bytes
    key,        \* the key it is encrypted with
    data,       \* the buffer on disk: raw, or the output of encrypt_bytes
    stage,      \* "raw" | "enc": whether data is encrypt_bytes(plain, key)
    dec,        \* outcome of the last decrypt_bytes(data, dkey)
    dkey,       \* the key of that call
    spc,        \* find_key_for_encrypted_bytes: "idle" | "loop" | "returned" | "typeerror"
    sstart,     \* its start_key
    skey,       \* its local variable key
    trials,     \* number of decrypt_bytes calls the loop has made
    \* ---- indexed text codec (core/encryptor.py, core/parser.py)
    names,      \* CARD_Name json: list of strings
    descs,      \* CARD_Desc json: list of strings
    nameBlob,   \* CARD_Name.bytes.dec
    descBlob,   \* CARD_Desc.bytes.dec
    nameIndx,   \* name_indx of build_mod
    descIndx,   \* desc_indx of build_mod
    indxBuf,    \* CARD_Indx.bytes.dec
    outNames,   \* CardModule.names after the split
    outDescs,   \* CardModule.descs after the split
    cpc,        \* "json" | "merged" | "split"
    hit,        \* index (0-based) of the offset overwritten in indxBuf, -1 if none
    \* ---- Pidx table (core/part_parser.py)
    pidxBuf,    \* Card_Pidx.bytes.dec
    pidxTable,  \* result of get_pidx_table
    ppc,        \* "file" | "parsed"
    \* ---- brace annotation (core/brace_utils.py, gui/main_window.py)
    text,       \* the description T
    ranges,     \* its part ranges R, a list of <<low, high>>
    braced,     \* insert_braces(text, ranges)
    segs,       \* _extract_top_level_segments(braced)
    unbraced,   \* make_unbraced_from_braced applied to braced
    bpc,        \* "plain" | "braced" | "extracted" | "unbraced"
    \* ---- Part table (core/part_parser.py, core/card_parser.py)
    partBuf,    \* Card_Part.bytes.dec
    partPidx,   \* the pidx_table handed to get_part_table
    partTable,  \* result of get_part_table
    partIn,     \* the part_table handed to write_part_file
    partOut,    \* the bytes write_part_file has written
    partIndices,\* the list it returns
    partBack,   \* get_part_table of the written bytes
    partPc,     \* "file" | "parsed" | "written" | "readback"
    \* ---- range remapping (core/card_parser.py: adjust_part_table)
    rText,      \* the description T before the edit
    rRanges,    \* its part ranges, part_table[i]
    rOld,       \* braced_descs[i]
    rNew,       \* changed_braced_descs[i]
    rAdjusted,  \* adjust_part_table(...)[i]
    rPc,        \* "plain" | "braced" | "edited" | "adjusted"
    \* ---- build_braced (core/build_braced.py): the extracted folder
    bbDescJson, \* CARD_Desc.bytes.dec.json: [exists, content], a list of strings
    bbDescDec,  \* CARD_Desc.bytes.dec: [exists, content], bytes
    bbPidx,     \* Card_Pidx.bytes.dec: [exists, content], bytes
    bbPart,     \* Card_Part.bytes.dec: [exists, content], bytes
    bbOut,      \* CARD_Desc.bytes.dec.braced.json: [exists, content]
    bbReads,    \* the files build_braced has read
    bbResult,   \* what it returns: [ok, kind, missing]
    bbPc,       \* "folder" | "returned"
    \* ---- key sources (core/asset_unpacker.py, core/encryptor.py)
    gameKey,    \* the key the game's buffers are encrypted with
    keyfile,    \* core/!CryptoKey.txt: [exists, content], the key as a number
    keyAtStart, \* whether the key file existed when the session began
    rawFiles,   \* extracted/<name>.bytes for each name: [exists, content]
    decFiles,   \* extracted/<name>.bytes.dec
    jsonFiles,  \* extracted/CARD_Name and CARD_Desc json: [exists, content]
    encryptor,  \* the Encryptor object: [created, hasKey, key]
    keySource,  \* where Encryptor.key comes from: "none" | "cache" | "search" | "fallback"
    modDec,     \* modded/<name>.bytes.dec of the three merged buffers
    modFiles,   \* modded/<name>.bytes for each output: [exists, content]
    passDone,   \* _try_decode_all has run
    built,      \* "no" | "raised" | "done": build_mod has run
    passFirst,  \* the decode pass had run when build_mod began
    searched,   \* build_mod has called find_key_for_encrypted_bytes
    folderKeyfile, \* extracted/!CryptoKey.txt, written by find_crypto_key_for_file
    fileSearch, \* find_crypto_key_for_file: "no" | "returned" | "running"
    keyLog,     \* the cache lookups, key searches and cache writes so far, in order
    \* ---- the editor (gui/main_window.py, core/parser.py)
    cardmod,       \* CardModule: [names, descs, braced_descs, effect_counts]
    partTableOf,   \* the ranges of each card in extracted/Card_Part.bytes.dec
    extractedJson, \* extracted name and description json: [exists, content]
    changedJson,   \* changed name and description json: [exists, content]
    changedPart,   \* changed/Card_Part.bytes.dec: [exists, content]
    selected,      \* the selected tree row, 0-based; -1 for no selection
    show_braced,   \* show_braced_var
    name_text,     \* content of the name widget
    desc_text,     \* content of the description widget
    shownBraced,   \* the annotated text the description widget was filled with
    asked,         \* the dialog save_change showed: "none" | "mismatch" | "braces"
    answer,        \* the user's answer: "none" | "yes" | "no"
    saveResult,    \* "none" | "No card" | "declined" | "TypeError"
    editKey,       \* Encryptor.key when the build encrypts
    moddedPart,    \* modded/Card_Part.bytes: [exists, content]
    buildResult,   \* "none" | "cancelled" | "Error during build" | "FileNotFoundError" | "done"
    builtAfterSave, \* the build began after save_change had stored an edit
    epc,           \* "loaded" | "selected" | "typed" | "saved"
    \* ---- count_top_level_braces (core/brace_utils.py), character by character
    ctText,     \* the argument text
    ctPos,      \* 1-based index of the next character of the for loop
    ctDepth,    \* depth
    ctTop,      \* top_level_count
    ctPc        \* "loop" | "returned"

cipherVars == <<plain, key, data, stage, dec, dkey, spc, sstart, skey, trials>>
codecVars  == <<names, descs, nameBlob, descBlob, nameIndx, descIndx, indxBuf,
                outNames, outDescs, cpc, hit>>
pidxVars   == <<pidxBuf, pidxTable, ppc>>
braceVars  == <<text, ranges, braced, segs, unbraced, bpc>>
partVars == <<partBuf, partPidx, partTable, partIn, partOut, partIndices, partBack, partPc>>
remapVars == <<rText, rRanges, rOld, rNew, rAdjusted, rPc>>
bracedVars == <<bbDescJson, bbDescDec, bbPidx, bbPart, bbOut, bbReads, bbResult, bbPc>>
keysVars == <<gameKey, keyfile, keyAtStart, rawFiles, decFiles, jsonFiles, encryptor, keySource, modDec, modFiles, passDone, built, passFirst, searched, folderKeyfile, fileSearch, keyLog>>
editVars == <<cardmod, partTableOf, extractedJson, changedJson, changedPart, selected, show_braced, name_text, desc_text, shownBraced, asked, answer, saveResult, editKey, moddedPart, buildResult, builtAfterSave, epc>>
countVars == <<ctText, ctPos, ctDepth, ctTop, ctPc>>
vars == <<cipherVars, codecVars, pidxVars, braceVars, partVars, remapVars, bracedVars, keysVars, editVars, countVars>>
\* what an action of one component leaves alone
notCipher == <<codecVars, pidxVars, braceVars, partVars, remapVars, bracedVars, keysVars, editVars, countVars>>
notCodec == <<cipherVars, pidxVars, braceVars, partVars, remapVars, bracedVars, keysVars, editVars, countVars>>
notPidx == <<cipherVars, codecVars, braceVars, partVars, remapVars, bracedVars, keysVars, editVars, countVars>>
notBrace == <<cipherVars, codecVars, pidxVars, partVars, remapVars, bracedVars, keysVars, editVars, countVars>>
notPart == <<cipherVars, codecVars, pidxVars, braceVars, remapVars, bracedVars, keysVars, editVars, countVars>>
notRemap == <<cipherVars, codecVars, pidxVars, braceVars, partVars, bracedVars, keysVars, editVars, countVars>>
notBraced == <<cipherVars, codecVars, pidxVars, braceVars, partVars, remapVars, keysVars, editVars, countVars>>
notKeys == <<cipherVars, codecVars, pidxVars, braceVars, partVars, remapVars, bracedVars, editVars, countVars>>
notEdit == <<cipherVars, codecVars, pidxVars, braceVars, partVars, remapVars, bracedVars, keysVars, countVars>>
notCount == <<cipherVars, codecVars, pidxVars, braceVars, partVars, remapVars, bracedVars, keysVars, editVars>>

(***************************************************************************)
(* Bounds of the model.                                                    *)
(***************************************************************************)
MaxBufLen  == 2     \* longest plaintext buffer
MaxEncKey  == 2     \* keys 0..MaxEncKey encrypt, and a few larger ones
KeyCap     == 258   \* keys 0..KeyCap are tried; the search counter stops there
MaxStart   == 1     \* start keys 0..MaxStart
MaxTrials  == 3     \* the trial bound the callers ask for (1<<14 in the code)

(***************************************************************************)
(* Sequences and bytes.                                                    *)
(***************************************************************************)
NoResult == [tried |-> FALSE, ok |-> FALSE, out |-> <<>>]

\* s[a:b] of Python for 0 <= a, 0 <= b (0-based, b exclusive, clamped).
Slice(s, a, b) ==
    LET hi == IF b > Len(s) THEN Len(s) ELSE b
    IN  IF a >= hi THEN <<>> ELSE [i \in 1..(hi - a) |-> s[a + i]]

RECURSIVE SeqsUpTo(_, _)
\* all sequences over S of length 0..n
SeqsUpTo(S, n) ==
    IF n = 0 THEN {<<>>}
    ELSE LET shorter == SeqsUpTo(S, n - 1)
         IN  shorter \cup {Append(s, x) : s \in {t \in shorter : Len(t) = n - 1}, x \in S}

RECURSIVE SumSeq(_)
SumSeq(s) == IF s = <<>> THEN 0 ELSE Head(s) + SumSeq(Tail(s))

RECURSIVE BitXor(_, _)
\* a ^ b on non-negative integers
BitXor(a, b) ==
    IF a = 0 THEN b
    ELSE IF b = 0 THEN a
    ELSE (((a % 2) + (b % 2)) % 2) + 2 * BitXor(a \div 2, b \div 2)

(***************************************************************************)
(* zlib, the library decrypt_bytes and encrypt_bytes call.  The model      *)
(* keeps what the cipher relies on: a stream is a two-byte header (CMF,    *)
(* FLG), a body and a check value; decompress rejects a stream whose       *)
(* header is not a valid zlib header (method 8, window <= 7, no preset     *)
(* dictionary, CMF*256+FLG divisible by 31) or whose check value does not  *)
(* match the body.  The body is stored, the check is a sum modulo 251.     *)
(***************************************************************************)
ZCheck(b) == (1 + SumSeq(b)) % 251

ZCompress(b) == <<120, 156>> \o b \o <<ZCheck(b)>>

ZHeaderOk(s) ==
    /\ Len(s) >= 2
    /\ s[1] % 16 = 8
    /\ s[1] \div 16 <= 7
    /\ (s[2] \div 32) % 2 = 0
    /\ (s[1] * 256 + s[2]) % 31 = 0

ZBody(s) == Slice(s, 2, Len(s) - 1)

ZValid(s) == /\ Len(s) >= 3
             /\ ZHeaderOk(s)
             /\ s[Len(s)] = ZCheck(ZBody(s))

(***************************************************************************)
(* core/decryptor.py                                                       *)
(***************************************************************************)
KeyOffset == 573    \* 0x23D

\* the keystream masked with 0x7F
KeyStreamMask7(i, k) == BitXor((i + k + KeyOffset) * k, i % 7) % 128

\* the keystream masked with 0x1FF
KeyStreamMask9(i, k) == BitXor((i + k + KeyOffset) * k, i % 7) % 512

\* the value v & 0xFF of _xor_transform at index i (0-based)
KeyStream(i, k) == BitXor((i + k + KeyOffset) * k, i % 7) % 256

\* a transform that adds the keystream instead of xoring it
XorTransformAdd(buf, k) ==
    [i \in 1..Len(buf) |-> (buf[i] + KeyStream(i - 1, k)) % 256]

XorTransform(buf, k) ==
    [i \in 1..Len(buf) |-> BitXor(buf[i], KeyStream(i - 1, k))]

\* decrypt_bytes: ok = FALSE stands for zlib.error
decrypt_bytes(d, k) ==
    LET buf == XorTransform(d, k)
    IN  IF ZValid(buf)
        THEN [tried |-> TRUE, ok |-> TRUE, out |-> ZBody(buf)]
        ELSE [tried |-> TRUE, ok |-> FALSE, out |-> <<>>]

encrypt_bytes(p, k) == XorTransform(ZCompress(p), k)

PlainBytes == {0, 65}
Buffers    == SeqsUpTo(PlainBytes, MaxBufLen)
\* the keys buffers are encrypted with
EncKeys    == (0..MaxEncKey) \cup {48, 195, 1000}

CipherInit ==
    /\ plain \in Buffers
    /\ key \in EncKeys
    /\ data = plain
    /\ stage = "raw"
    /\ dec = NoResult
    /\ dkey = 0
    /\ spc = "idle"
    /\ sstart = 0
    /\ skey = 0
    /\ trials = 0

\* encrypt_bytes(plain, key) is written to disk
Encrypt ==
    /\ stage = "raw" /\ spc = "idle" /\ ~dec.tried
    /\ data' = encrypt_bytes(plain, key)
    /\ stage' = "enc"
    /\ UNCHANGED <<plain, key, dec, dkey, spc, sstart, skey, trials>>
    /\ UNCHANGED notCipher

\* one call decrypt_bytes(data, k)
Decrypt ==
    /\ spc = "idle" /\ ~dec.tried
    /\ \E k \in 0..KeyCap :
          /\ dec' = decrypt_bytes(data, k)
          /\ dkey' = k
    /\ UNCHANGED <<plain, key, data, stage, spc, sstart, skey, trials>>
    /\ UNCHANGED notCipher

\* a search that ignores its start key
FirstKeyZero(start_key) == 0

\* key = start_key
FirstKey(start_key) == start_key

\* find_key_for_encrypted_bytes(data, start_key) is entered
CallFindKey ==
    /\ spc = "idle" /\ ~dec.tried
    /\ \E s \in 0..MaxStart :
          /\ sstart' = s
          /\ skey' = FirstKey(s)
    /\ spc' = "loop"
    /\ trials' = 0
    /\ UNCHANGED <<plain, key, data, stage, dec, dkey>>
    /\ UNCHANGED notCipher

\* the call of the unpacker and of the Encryptor:
\* find_key_for_encrypted_bytes(data, start=0, max_trials=1<<14).  The function
\* has no such parameters: Python raises TypeError before the body runs.
CallFindKeyBounded ==
    /\ spc = "idle" /\ ~dec.tried
    /\ spc' = "typeerror"
    /\ UNCHANGED <<plain, key, data, stage, dec, dkey, sstart, skey, trials>>
    /\ UNCHANGED notCipher

\* key += 1 after a failed decode
NextKey(k) == k + 1

\* one iteration of while True
TryKey ==
    /\ spc = "loop"
    /\ skey < KeyCap
    /\ trials' = trials + 1
    /\ IF decrypt_bytes(data, skey).ok
       THEN /\ spc' = "returned"
            /\ skey' = skey
       ELSE /\ spc' = "loop"
            /\ skey' = NextKey(skey)
    /\ UNCHANGED <<plain, key, data, stage, dec, dkey, sstart>>
    /\ UNCHANGED notCipher

CipherNext == Encrypt \/ Decrypt \/ CallFindKey \/ CallFindKeyBounded \/ TryKey

\* the cipher at rest, for the specifications of the other components
CipherIdle ==
    /\ plain = <<>> /\ key = 0 /\ data = <<>> /\ stage = "raw"
    /\ dec = NoResult /\ dkey = 0
    /\ spc = "idle" /\ sstart = 0 /\ skey = 0 /\ trials = 0

(***************************************************************************)
(* UTF-8.  Strings are sequences of code points; the model covers code     *)
(* points below 2048 (one- and two-byte sequences).  Utf8Decode is         *)
(* bytes.decode("utf-8", errors="replace"): a byte that starts no valid    *)
(* sequence becomes U+FFFD and decoding resumes at the next byte.          *)
(***************************************************************************)
Replacement == 65533    \* U+FFFD

Utf8Char(c) == IF c < 128 THEN <<c>> ELSE <<192 + (c \div 64), 128 + (c % 64)>>

RECURSIVE Utf8Encode(_)
Utf8Encode(s) == IF s = <<>> THEN <<>> ELSE Utf8Char(Head(s)) \o Utf8Encode(Tail(s))

IsCont(x) == x >= 128 /\ x <= 191

RECURSIVE Utf8Decode(_)
Utf8Decode(b) ==
    IF b = <<>> THEN <<>>
    ELSE LET x == b[1]
         IN  IF x < 128 THEN <<x>> \o Utf8Decode(Tail(b))
             ELSE IF x >= 194 /\ x <= 223 /\ Len(b) >= 2 /\ IsCont(b[2])
                  THEN <<(x - 192) * 64 + (b[2] - 128)>> \o Utf8Decode(Tail(Tail(b)))
                  ELSE <<Replacement>> \o Utf8Decode(Tail(b))

RECURSIVE RStripNul(_)
\* txt.rstrip("\x00")
RStripNul(s) ==
    IF s # <<>> /\ s[Len(s)] = 0 THEN RStripNul(SubSeq(s, 1, Len(s) - 1)) ELSE s

Nuls(n) == [i \in 1..n |-> 0]

(***************************************************************************)
(* Encryptor.build_mod: the merge (core/encryptor.py, lines 39-64).        *)
(***************************************************************************)
\* length of helper without the header correction of the first record
RecordLengthNoHeader(sentence, i) == Len(Utf8Encode(sentence))

\* length of helper: the UTF-8 length, plus 8 for record 0
RecordLength(sentence, i) ==
    Len(Utf8Encode(sentence)) + (IF i = 0 THEN 8 ELSE 0)

\* the padding of utils/_CARD_merge+calc_index.py, line 109
SpaceLenCommunity(length) == 4 - (length % 4)

\* space_len
SpaceLen(length) == (4 - (length % 4)) % 4

RECURSIVE MergeLoop(_, _, _, _)
\* the loop over the records of one list: indx and merge_str after it.
\* i is the 0-based index of the next record.
MergeLoop(list, i, indx, merge) ==
    IF i >= Len(list) THEN [indx |-> indx, merge |-> merge]
    ELSE LET sentence  == list[i + 1]
             length    == RecordLength(sentence, i)
             space_len == SpaceLen(length)
         IN  MergeLoop(list, i + 1,
                       Append(indx, indx[Len(indx)] + length + space_len),
                       merge \o sentence \o Nuls(space_len))

Merged(list) == MergeLoop(list, 0, <<0>>, Nuls(8))

\* name_indx = [4,8] + name_indx[1:]
FinalIndx(list) == <<4, 8>> \o Tail(Merged(list).indx)

\* name_merge.encode("utf-8")
MergedBlob(list) == Utf8Encode(Merged(list).merge)

\* int -> 4 little endian bytes
IntTo4Bytes(n) == [i \in 1..4 |-> (n \div (256 ^ (i - 1))) % 256]

RECURSIVE CardIndxMerge(_, _, _)
\* card_indx interleaved and joined, from position i (1-based) on
CardIndxMerge(nIndx, dIndx, i) ==
    IF i > Len(nIndx) THEN <<>>
    ELSE IntTo4Bytes(nIndx[i]) \o IntTo4Bytes(dIndx[i]) \o CardIndxMerge(nIndx, dIndx, i + 1)

(***************************************************************************)
(* The merge of utils/_CARD_merge+calc_index.py (lines 86-127), the script *)
(* build_mod is based on.                                                  *)
(***************************************************************************)
RECURSIVE MergeLoopCommunity(_, _, _, _)
\* helper of the script, applied to the records of one list from i on
MergeLoopCommunity(list, i, indx, merge) ==
    IF i >= Len(list) THEN [indx |-> indx, merge |-> merge]
    ELSE LET sentence  == list[i + 1]
             length    == RecordLength(sentence, i)
             space_len == SpaceLenCommunity(length)
         IN  MergeLoopCommunity(list, i + 1,
                                Append(indx, indx[Len(indx)] + length + space_len),
                                merge \o sentence \o Nuls(space_len))

\* merge_string and indx of the script after its loop
MergedCommunity(list) == MergeLoopCommunity(list, 0, <<0>>, Nuls(8))

\* name_indx = [4, 8] + name_indx[1:] of the script
FinalIndxCommunity(list) == <<4, 8>> \o Tail(MergedCommunity(list).indx)

(***************************************************************************)
(* CardModule._progressive_processing: the split (core/parser.py).         *)
(***************************************************************************)
FromBytesLittle(c) == c[1] + 256 * c[2] + 65536 * c[3] + 16777216 * c[4]

RECURSIVE ReadIdxs(_, _)
\* for i in range(start, len(arr), 8): ... idxs.append(num)
ReadIdxs(arr, i) ==
    IF i >= Len(arr) THEN <<>>
    ELSE LET chunk == Slice(arr, i, i + 4)
         IN  IF Len(chunk) < 4 THEN <<>>
             ELSE <<FromBytesLittle(chunk)>> \o ReadIdxs(arr, i + 8)

\* drop header index
DropHeader(idxs) == IF Len(idxs) > 0 THEN Tail(idxs) ELSE idxs

\* a guard that forgets the upper bound
BadPairNoUpper(a, b, n) == a < 0 \/ b <= a

\* the guard of the loop
BadPair(a, b, n) == a < 0 \/ b <= a \/ b > n

RECURSIVE SplitLoop(_, _, _, _)
\* for i in range(len(idxs) - 1), i 1-based here
SplitLoop(idxs, blob, i, res) ==
    IF i > Len(idxs) - 1 THEN res
    ELSE LET a == idxs[i]
             b == idxs[i + 1]
         IN  IF BadPair(a, b, Len(blob))
             THEN SplitLoop(idxs, blob, i + 1, Append(res, <<>>))
             ELSE SplitLoop(idxs, blob, i + 1,
                            Append(res, RStripNul(Utf8Decode(Slice(blob, a, b)))))

progressive_processing(indx, blob, start) ==
    SplitLoop(DropHeader(ReadIdxs(indx, start)), blob, 1, <<>>)

(***************************************************************************)
(* The codec as a state machine: the two JSON lists are merged by          *)
(* build_mod, one offset of the index buffer may be damaged, and           *)
(* load_from_folder splits the buffers again.                              *)
(***************************************************************************)
MaxRecords == 2     \* longest list of records

NamePool == {<<>>, <<97>>}                                      \* "", "a"
DescPool == {<<>>, <<97>>, <<233>>, <<97, 233>>, <<233, 233>>}  \* "", "a", "e'", "ae'", "e'e'"
\* the values a damaged offset takes
DamagePool == {0, 8, 12, 64}

CodecInit ==
    /\ \E n \in 0..MaxRecords :
          /\ names \in [1..n -> NamePool]
          /\ descs \in [1..n -> DescPool]
    /\ nameBlob = <<>> /\ descBlob = <<>>
    /\ nameIndx = <<>> /\ descIndx = <<>>
    /\ indxBuf = <<>>
    /\ outNames = <<>> /\ outDescs = <<>>
    /\ cpc = "json"
    /\ hit = -1

\* build_mod up to the .dec files
BuildMod ==
    /\ cpc = "json"
    /\ nameBlob' = MergedBlob(names)
    /\ descBlob' = MergedBlob(descs)
    /\ nameIndx' = FinalIndx(names)
    /\ descIndx' = FinalIndx(descs)
    /\ indxBuf' = CardIndxMerge(FinalIndx(names), FinalIndx(descs), 1)
    /\ cpc' = "merged"
    /\ UNCHANGED <<names, descs, outNames, outDescs, hit>>
    /\ UNCHANGED notCodec

\* one 4-byte offset of CARD_Indx.bytes.dec is overwritten
DamageOffset ==
    /\ cpc = "merged" /\ hit = -1
    /\ \E g \in 0..(Len(indxBuf) \div 4 - 1), v \in DamagePool :
          /\ FromBytesLittle(Slice(indxBuf, 4 * g, 4 * g + 4)) # v
          /\ indxBuf' = [j \in 1..Len(indxBuf) |->
                            IF j > 4 * g /\ j <= 4 * g + 4
                            THEN IntTo4Bytes(v)[j - 4 * g] ELSE indxBuf[j]]
          /\ hit' = g
    /\ UNCHANGED <<names, descs, nameBlob, descBlob, nameIndx, descIndx,
                   outNames, outDescs, cpc>>
    /\ UNCHANGED notCodec

\* load_from_folder: names from phase 0, descriptions from phase 4
LoadFromFolder ==
    /\ cpc = "merged"
    /\ outNames' = progressive_processing(indxBuf, nameBlob, 0)
    /\ outDescs' = progressive_processing(indxBuf, descBlob, 4)
    /\ cpc' = "split"
    /\ UNCHANGED <<names, descs, nameBlob, descBlob, nameIndx, descIndx, indxBuf, hit>>
    /\ UNCHANGED notCodec

CodecNext == BuildMod \/ DamageOffset \/ LoadFromFolder

CodecIdle ==
    /\ names = <<>> /\ descs = <<>>
    /\ nameBlob = <<>> /\ descBlob = <<>>
    /\ nameIndx = <<>> /\ descIndx = <<>>
    /\ indxBuf = <<>>
    /\ outNames = <<>> /\ outDescs = <<>>
    /\ cpc = "json"
    /\ hit = -1

(***************************************************************************)
(* core/part_parser.py: get_pidx_table.  The buffer holds whole 4-byte     *)
(* groups, at least one.                                                   *)
(***************************************************************************)
MaxGroups == 3      \* most 4-byte groups in Card_Pidx.bytes.dec

\* the counts read from byte 2 of the group instead of byte 3
PidxEntryByte2(pidx, i) ==
    <<pidx[i + 1] + pidx[i + 2] * 256, pidx[i + 3] \div 16, pidx[i + 3] % 16>>

\* the tuple built from the group at byte offset i (0-based)
PidxEntry(pidx, i) ==
    <<pidx[i + 1] + pidx[i + 2] * 256, pidx[i + 4] \div 16, pidx[i + 4] % 16>>

\* pidx_table[1:], entry e built from the group at byte offset 4*e
get_pidx_table(pidx) ==
    [e \in 1..(Len(pidx) \div 4 - 1) |-> PidxEntry(pidx, 4 * e)]

PidxGroups ==
    {<<p[1], p[2], b2, b3>> : p \in {<<0, 0>>, <<2, 0>>, <<255, 1>>},
                              b2 \in {0, 7}, b3 \in {0, 16, 255}}

RECURSIVE Flatten(_)
Flatten(ss) == IF ss = <<>> THEN <<>> ELSE Head(ss) \o Flatten(Tail(ss))

PidxInit ==
    /\ \E g \in 1..MaxGroups :
          \E groups \in [1..g -> PidxGroups] : pidxBuf = Flatten(groups)
    /\ pidxTable = <<>>
    /\ ppc = "file"

ParsePidx ==
    /\ ppc = "file"
    /\ pidxTable' = get_pidx_table(pidxBuf)
    /\ ppc' = "parsed"
    /\ UNCHANGED pidxBuf
    /\ UNCHANGED notPidx

PidxNext == ParsePidx

PidxIdle == pidxBuf = <<>> /\ pidxTable = <<>> /\ ppc = "file"


(***************************************************************************)
(* core/brace_utils.py: insert_braces.  Ranges hold non-negative numbers,  *)
(* as get_part_table reads them.                                           *)
(***************************************************************************)
LBrace == 123
RBrace == 125

\* an insert that overwrites the byte at index
string_insert_over(orig, ins, index) ==
    Slice(orig, 0, index) \o ins \o Slice(orig, index + 1, Len(orig))

\* orig[:index] + ins + orig[index:]
string_insert(orig, ins, index) ==
    Slice(orig, 0, index) \o ins \o Slice(orig, index, Len(orig))

\* the ranges with a < b
KeptParts(parts_arr) == SelectSeq(parts_arr, LAMBDA r : r[1] < r[2])

\* insertion_dict[index]['L'] and ['R']
CountL(parts, index) == Cardinality({i \in 1..Len(parts) : parts[i][1] = index})
CountR(parts, index) == Cardinality({i \in 1..Len(parts) : parts[i][2] + 1 = index})

InsertionKeys(parts) ==
    {parts[i][1] : i \in 1..Len(parts)} \cup {parts[i][2] + 1 : i \in 1..Len(parts)}

SetMax(S) == CHOOSE x \in S : \A y \in S : y <= x

\* ins = b'{' * L + b'}' * R
InsertionOpenFirst(parts, index) ==
    [i \in 1..CountL(parts, index) |-> LBrace] \o [i \in 1..CountR(parts, index) |-> RBrace]

\* ins = b'}' * R + b'{' * L
Insertion(parts, index) ==
    [i \in 1..CountR(parts, index) |-> RBrace] \o [i \in 1..CountL(parts, index) |-> LBrace]

RECURSIVE InsertLoop(_, _, _)
\* for index in sorted(insertion_dict.keys(), reverse=True)
InsertLoop(ans, parts, keys) ==
    IF keys = {} THEN ans
    ELSE LET index == SetMax(keys)
         IN  InsertLoop(string_insert(ans, Insertion(parts, index), index),
                        parts, keys \ {index})

insert_braces(effect_text, parts_arr) ==
    LET parts == KeptParts(parts_arr)
    IN  IF parts = <<>> THEN effect_text
        ELSE Utf8Decode(InsertLoop(Utf8Encode(effect_text), parts, InsertionKeys(parts)))

\* core/card_parser.py, make_unbraced_from_braced: s.replace('{','').replace('}','')
make_unbraced(s) == SelectSeq(s, LAMBDA c : c # LBrace /\ c # RBrace)

(***************************************************************************)
(* gui/main_window.py: MainWindow._extract_top_level_segments.             *)
(***************************************************************************)
\* the characters str.strip() removes
IsSpace(c) == c \in {9, 10, 11, 12, 13, 28, 29, 30, 31, 32, 133, 160}

RECURSIVE LStrip(_)
LStrip(s) == IF s # <<>> /\ IsSpace(s[1]) THEN LStrip(Tail(s)) ELSE s

RECURSIVE RStrip(_)
RStrip(s) ==
    IF s # <<>> /\ IsSpace(s[Len(s)]) THEN RStrip(SubSeq(s, 1, Len(s) - 1)) ELSE s

Strip(s) == LStrip(RStrip(s))

\* a segment kept as it stands between the braces
SegmentTextRaw(cur) == cur

\* ''.join(cur).strip()
SegmentText(cur) == Strip(cur)

\* first_top: 0-based index of the first '{', -1 for None.  The scan stops at
\* the first '{', where depth is still 0.
FirstTop(s) ==
    IF \E i \in 1..Len(s) : s[i] = LBrace
    THEN (CHOOSE i \in 1..Len(s) : s[i] = LBrace /\ \A j \in 1..(i - 1) : s[j] # LBrace) - 1
    ELSE -1

\* material_text without .strip()
MaterialRaw(s) ==
    LET first_top == FirstTop(s)
        candidate == Slice(s, 0, first_top)
    IN  IF first_top > 0 /\ candidate # <<>>
        THEN [has |-> TRUE, text |-> candidate]
        ELSE [has |-> FALSE, text |-> <<>>]

\* material_text; has = FALSE stands for None
Material(s) ==
    LET first_top == FirstTop(s)
        candidate == Strip(Slice(s, 0, first_top))
    IN  IF first_top > 0 /\ candidate # <<>>
        THEN [has |-> TRUE, text |-> candidate]
        ELSE [has |-> FALSE, text |-> <<>>]

RECURSIVE SegmentLoop(_, _, _, _, _)
\* the second loop, from character i (1-based) on
SegmentLoop(s, i, depth, cur, res) ==
    IF i > Len(s) THEN res
    ELSE LET ch == s[i]
         IN  IF ch = LBrace
             THEN SegmentLoop(s, i + 1, depth + 1,
                              IF depth = 0 THEN <<>> ELSE Append(cur, ch), res)
             ELSE IF ch = RBrace
             THEN IF depth > 0
                  THEN IF depth - 1 = 0
                       THEN SegmentLoop(s, i + 1, 0, cur, Append(res, SegmentText(cur)))
                       ELSE SegmentLoop(s, i + 1, depth - 1, Append(cur, ch), res)
                  ELSE SegmentLoop(s, i + 1, depth, cur, res)
             ELSE SegmentLoop(s, i + 1, depth,
                              IF depth > 0 THEN Append(cur, ch) ELSE cur, res)

extract_top_level_segments(s) ==
    [material |-> Material(s), segments |-> SegmentLoop(s, 1, 0, <<>>, <<>>)]

(***************************************************************************)
(* The annotator as a state machine: a description and its ranges are      *)
(* annotated; the annotated text is split into segments for display, or    *)
(* stripped of its braces again.                                           *)
(***************************************************************************)
MaxRanges == 2      \* most ranges of a record
MaxPos    == 4      \* range values are drawn from 0..MaxPos

NoSegments == [material |-> [has |-> FALSE, text |-> <<>>], segments |-> <<>>]

TextPool ==
    { <<>>, <<97>>, <<233>>, <<32, 97>>, <<97, 32>>, <<233, 233>>,
      <<97, 233, 97>>, <<32, 233, 32>>, <<97, 32, 97, 97>>, <<97, 97, 32, 97, 97>>,
      <<123, 97, 125>>, <<125, 97>>, <<32, 123, 97>> }

RangePairs == {<<a, b>> : a \in 0..MaxPos, b \in 0..MaxPos}

\* "Deal 10 damage."
DealText == <<68, 101, 97, 108, 32, 49, 48, 32, 100, 97, 109, 97, 103, 101, 46>>

BraceInit ==
    /\ \/ /\ text \in TextPool
          /\ ranges \in SeqsUpTo({r \in RangePairs : r[1] <= r[2]}, MaxRanges)
       \/ /\ text = DealText
          /\ ranges = << <<5, 6>> >>
    /\ braced = <<>>
    /\ segs = NoSegments
    /\ unbraced = <<>>
    /\ bpc = "plain"

InsertBraces ==
    /\ bpc = "plain"
    /\ braced' = insert_braces(text, ranges)
    /\ bpc' = "braced"
    /\ UNCHANGED <<text, ranges, segs, unbraced>>
    /\ UNCHANGED notBrace

ExtractSegments ==
    /\ bpc = "braced"
    /\ segs' = extract_top_level_segments(braced)
    /\ bpc' = "extracted"
    /\ UNCHANGED <<text, ranges, braced, unbraced>>
    /\ UNCHANGED notBrace

MakeUnbraced ==
    /\ bpc = "braced"
    /\ unbraced' = make_unbraced(braced)
    /\ bpc' = "unbraced"
    /\ UNCHANGED <<text, ranges, braced, segs>>
    /\ UNCHANGED notBrace

BraceNext == InsertBraces \/ ExtractSegments \/ MakeUnbraced

BraceIdle ==
    /\ text = <<>> /\ ranges = <<>> /\ braced = <<>>
    /\ segs = NoSegments /\ unbraced = <<>> /\ bpc = "plain"


(***************************************************************************)
(* core/part_parser.py: get_part_table, and core/card_parser.py:           *)
(* write_part_file.  A read past the end of the buffer raises IndexError,  *)
(* int.to_bytes(2, ...) of a value above 65535 raises OverflowError: the   *)
(* result of either call is then marked raised.                            *)
(***************************************************************************)
MaxPartGroups  == 2     \* most range groups after the header of Card_Part
MaxPartRecords == 2     \* most records of a part table
MaxPartRanges  == 2     \* most ranges of one record

\* a call that has not been made, or that raised: no table
NoTable == [raised |-> FALSE, table |-> <<>>]
Raised  == [raised |-> TRUE, table |-> <<>>]

\* hi read from the bytes k+1 and k+2
PartRangeShifted(part, j) ==
    <<part[4 * j + 1] + part[4 * j + 2] * 256, part[4 * j + 2] + part[4 * j + 3] * 256>>

\* (lo, hi) of the group at k = 4 * j
PartRange(part, j) ==
    <<part[4 * j + 1] + part[4 * j + 2] * 256, part[4 * j + 3] + part[4 * j + 4] * 256>>

\* the groups j in range(a, a + b + c) of one entry; none for (0, 0, 0)
EntryGroups(e) ==
    IF e[1] = 0 /\ e[2] = 0 /\ e[3] = 0 THEN <<>>
    ELSE [n \in 1..(e[2] + e[3]) |-> e[1] + n - 1]

\* part[k + 3] exists
GroupInBuffer(part, j) == 4 * j + 3 < Len(part)

get_part_table(part, pidx_table) ==
    IF \E i \in 1..Len(pidx_table) :
          \E n \in 1..Len(EntryGroups(pidx_table[i])) :
             ~GroupInBuffer(part, EntryGroups(pidx_table[i])[n])
    THEN Raised
    ELSE [raised |-> FALSE,
          table |-> [i \in 1..Len(pidx_table) |->
                       [n \in 1..Len(EntryGroups(pidx_table[i])) |->
                           PartRange(part, EntryGroups(pidx_table[i])[n])]]]

\* a.to_bytes(2, "little")
ToBytes2(a) == <<a % 256, a \div 256>>
Fits16(a) == a >= 0 /\ a < 65536

RECURSIVE WriteParts(_, _)
\* the inner loop of write_part_file over one record: the bytes written and
\* whether to_bytes raised
WriteParts(arr, out) ==
    IF arr = <<>> THEN [bytes |-> out, raised |-> FALSE]
    ELSE LET a == Head(arr)[1]
             b == Head(arr)[2]
         IN  IF ~Fits16(a) THEN [bytes |-> out, raised |-> TRUE]
             ELSE IF ~Fits16(b) THEN [bytes |-> out \o ToBytes2(a), raised |-> TRUE]
             ELSE WriteParts(Tail(arr), out \o ToBytes2(a) \o ToBytes2(b))

RECURSIVE WriteRecords(_, _, _, _, _)
\* the outer loop: indices[j] = index, then the record's ranges
WriteRecords(table, j, index, indices, out) ==
    IF j > Len(table) THEN [bytes |-> out, raised |-> FALSE, indices |-> indices]
    ELSE LET w == WriteParts(table[j], out)
         IN  IF w.raised THEN [bytes |-> w.bytes, raised |-> TRUE, indices |-> <<>>]
             ELSE WriteRecords(table, j + 1, index + Len(table[j]),
                               Append(indices, index), w.bytes)

\* index = 0 before the first record
write_part_file_index0(table) == WriteRecords(table, 1, 0, <<>>, <<0, 0, 0, 0>>)

\* f.write(4 * nul); index = 1
write_part_file(table) == WriteRecords(table, 1, 1, <<>>, <<0, 0, 0, 0>>)

PidxEntryPool == {<<0, 0, 0>>, <<1, 1, 0>>, <<2, 1, 0>>, <<1, 1, 1>>, <<0, 1, 0>>, <<2, 0, 0>>}
PartGroupPool == {<<10, 0, 20, 0>>, <<0, 1, 255, 255>>}
PartRangePool == {<<10, 20>>, <<256, 65535>>, <<0, 65536>>}

PartInit ==
    /\ \/ /\ partPidx \in SeqsUpTo(PidxEntryPool, MaxPartRecords)
          /\ \E groups \in SeqsUpTo(PartGroupPool, MaxPartGroups) :
                partBuf = <<0, 0, 0, 0>> \o Flatten(groups)
          /\ partIn = <<>>
       \/ /\ partPidx = <<>>
          /\ partBuf = <<0, 0, 0, 0>>
          /\ partIn \in SeqsUpTo(SeqsUpTo(PartRangePool, MaxPartRanges), MaxPartRecords)
    /\ partTable = NoTable
    /\ partOut = <<>>
    /\ partIndices = [raised |-> FALSE, indices |-> <<>>]
    /\ partBack = NoTable
    /\ partPc = "file"

GetPartTable ==
    /\ partPc = "file"
    /\ partTable' = get_part_table(partBuf, partPidx)
    /\ partPc' = "parsed"
    /\ UNCHANGED <<partBuf, partPidx, partIn, partOut, partIndices, partBack>>
    /\ UNCHANGED notPart

WritePartFile ==
    /\ partPc = "file"
    /\ LET w == write_part_file(partIn)
       IN  /\ partOut' = w.bytes
           /\ partIndices' = [raised |-> w.raised, indices |-> w.indices]
    /\ partPc' = "written"
    /\ UNCHANGED <<partBuf, partPidx, partTable, partIn, partBack>>
    /\ UNCHANGED notPart

\* the written file decoded again: record j is addressed by its returned
\* index and two counts that add up to its number of ranges
ReadBack ==
    /\ partPc = "written"
    /\ ~partIndices.raised
    /\ \E split \in [1..Len(partIn) -> 0..MaxPartRanges + 1] :
          /\ \A j \in 1..Len(partIn) : split[j] <= Len(partIn[j])
          /\ partBack' = get_part_table(partOut,
                [j \in 1..Len(partIn) |->
                    <<partIndices.indices[j], split[j], Len(partIn[j]) - split[j]>>])
    /\ partPc' = "readback"
    /\ UNCHANGED <<partBuf, partPidx, partTable, partIn, partOut, partIndices>>
    /\ UNCHANGED notPart

PartNext == GetPartTable \/ WritePartFile \/ ReadBack

PartIdle ==
    /\ partBuf = <<>> /\ partPidx = <<>> /\ partTable = NoTable /\ partIn = <<>>
    /\ partOut = <<>> /\ partIndices = [raised |-> FALSE, indices |-> <<>>]
    /\ partBack = NoTable /\ partPc = "file"


(***************************************************************************)
(* core/part_parser.py: unbraced_brace_indices, and core/card_parser.py:   *)
(* concated_pairs, get_diff, make_map, apply_map, adjust_part_table, for   *)
(* one record i.                                                           *)
(***************************************************************************)
MaxRemapRanges == 2     \* most ranges of the edited record

IsBrace(c) == c = LBrace \/ c = RBrace

RECURSIVE FillTrailing(_, _)
\* for k in range(len(ans) - 1, -1, -1): if ans[k] != -1: break; ans[k] = j
FillTrailing(ans, j) ==
    IF ans = <<>> \/ ans[Len(ans)] # -1 THEN ans
    ELSE Append(FillTrailing(SubSeq(ans, 1, Len(ans) - 1), j), j)

RECURSIVE BraceIndicesLoop(_, _, _, _)
\* the loop over the bytes b of in_str
BraceIndicesLoop(b, i, j, ans) ==
    IF i > Len(b) THEN ans
    ELSE IF b[i] = LBrace THEN BraceIndicesLoop(b, i + 1, j, Append(ans, -1))
    ELSE IF b[i] = RBrace THEN BraceIndicesLoop(b, i + 1, j, Append(ans, j))
    ELSE BraceIndicesLoop(b, i + 1, j + 1, FillTrailing(ans, j + 1))

unbraced_brace_indices(in_str) == BraceIndicesLoop(Utf8Encode(in_str), 1, -1, <<>>)

RECURSIVE InsertSorted(_, _)
InsertSorted(x, s) ==
    IF s = <<>> THEN <<x>>
    ELSE IF x <= Head(s) THEN <<x>> \o s
    ELSE <<Head(s)>> \o InsertSorted(x, Tail(s))

RECURSIVE SortInts(_)
\* list.sort()
SortInts(s) == IF s = <<>> THEN <<>> ELSE InsertSorted(Head(s), SortInts(Tail(s)))

RECURSIVE ConcatPairs(_)
\* the pairs with a != b, flattened
ConcatPairs(pairs) ==
    IF pairs = <<>> THEN <<>>
    ELSE IF Head(pairs)[1] = Head(pairs)[2] THEN ConcatPairs(Tail(pairs))
    ELSE <<Head(pairs)[1], Head(pairs)[2]>> \o ConcatPairs(Tail(pairs))

\* the list without ans.sort()
concated_pairs_unsorted(pairs_list) == ConcatPairs(pairs_list)

concated_pairs(pairs_list) == SortInts(ConcatPairs(pairs_list))

Max2(a, b) == IF a >= b THEN a ELSE b

\* arr[i] if i < len(arr) else 0, with the 0-based index j
At0(arr, j) == IF j < Len(arr) THEN arr[j + 1] ELSE 0

\* get_diff: no differences for equal lists (None), else the padded
\* element-wise differences
get_diff(arr_old, arr_new) ==
    IF arr_old = arr_new THEN [none |-> TRUE, dif |-> <<>>]
    ELSE [none |-> FALSE,
          dif |-> [n \in 1..Max2(Len(arr_old), Len(arr_new)) |->
                      At0(arr_old, n - 1) - At0(arr_new, n - 1)]]

\* changed_braced_arr after "if arr_dif:" has added the differences
ShiftedChanged(arr_dif, changed_braced_arr) ==
    IF arr_dif.none \/ arr_dif.dif = <<>> THEN changed_braced_arr
    ELSE [n \in 1..Len(changed_braced_arr) |->
             changed_braced_arr[n] + At0(arr_dif.dif, n - 1)]

\* the (a, b) of the second loop of make_map, in order of j
MapPairs(unbraced_arr, changed_braced_arr) ==
    [n \in 1..Max2(Len(unbraced_arr), Len(changed_braced_arr)) |->
        <<At0(unbraced_arr, n - 1), At0(changed_braced_arr, n - 1)>>]

\* the dict ans: ans[a] = b, a later j overwriting an earlier one
DictOf(pairs) ==
    [a \in {pairs[n][1] : n \in 1..Len(pairs)} |->
        pairs[SetMax({n \in 1..Len(pairs) : pairs[n][1] = a})][2]]

make_map(part_arr, braced_desc, changed_braced_desc) ==
    LET unbraced_arr == concated_pairs(part_arr)
        braced_arr == unbraced_brace_indices(braced_desc)
        arr_dif == get_diff(unbraced_arr, braced_arr)
        changed_braced_arr ==
            ShiftedChanged(arr_dif, unbraced_brace_indices(changed_braced_desc))
    IN  DictOf(MapPairs(unbraced_arr, changed_braced_arr))

\* a mapping that does not skip the ranges with a >= b
apply_map_unguarded(part_arr, f) ==
    [n \in 1..Len(part_arr) |->
        LET a == part_arr[n][1]
            b == part_arr[n][2]
        IN  IF a \in DOMAIN f /\ b \in DOMAIN f THEN <<f[a], f[b]>>
            ELSE <<a, b>>]

apply_map(part_arr, f) ==
    [n \in 1..Len(part_arr) |->
        LET a == part_arr[n][1]
            b == part_arr[n][2]
        IN  IF a >= b THEN <<a, b>>
            ELSE IF a \in DOMAIN f /\ b \in DOMAIN f THEN <<f[a], f[b]>>
            ELSE <<a, b>>]

\* new_table[i] of adjust_part_table
adjust_part_table(part_arr, braced_desc, changed_braced_desc) ==
    apply_map(part_arr, make_map(part_arr, braced_desc, changed_braced_desc))

(***************************************************************************)
(* The remapping as a state machine: a description is annotated, the user  *)
(* edits the annotated text, and the ranges are adjusted.  An edit either  *)
(* rewrites the plain text between the braces or replaces the end of the   *)
(* text, braces included.                                                  *)
(***************************************************************************)
RemapTexts == {<<97, 98, 99, 100>>, <<97, 233, 98>>, <<97, 98>>}
RemapPairs == {<<0, 1>>, <<1, 2>>, <<2, 3>>, <<0, 3>>, <<1, 3>>, <<0, 0>>, <<2, 2>>, <<3, 1>>}
SegmentPool == {<<>>, <<120>>, <<233, 121>>}
TailPool == {<<>>, <<120>>, <<123, 120, 125>>, <<120, 123, 121, 122, 125>>, <<125>>, <<123>>}

\* the braces of s, in order
BracesOf(s) == SelectSeq(s, IsBrace)

RECURSIVE Interleave(_, _)
\* segs[1] brace[1] segs[2] ... brace[k] segs[k + 1]
Interleave(segments, braces) ==
    IF braces = <<>> THEN Head(segments)
    ELSE Head(segments) \o <<Head(braces)>> \o Interleave(Tail(segments), Tail(braces))

RemapInit ==
    /\ rText \in RemapTexts
    /\ rRanges \in SeqsUpTo(RemapPairs, MaxRemapRanges)
    /\ rOld = <<>>
    /\ rNew = <<>>
    /\ rAdjusted = <<>>
    /\ rPc = "plain"

\* braced_descs[i] is the description with its ranges marked
RemapAnnotate ==
    /\ rPc = "plain"
    /\ rOld' = insert_braces(rText, rRanges)
    /\ rPc' = "braced"
    /\ UNCHANGED <<rText, rRanges, rNew, rAdjusted>>
    /\ UNCHANGED notRemap

\* the user rewrites the text between the braces
EditText ==
    /\ rPc = "braced"
    /\ \E segments \in [1..(Len(BracesOf(rOld)) + 1) -> SegmentPool] :
          rNew' = Interleave(segments, BracesOf(rOld))
    /\ rPc' = "edited"
    /\ UNCHANGED <<rText, rRanges, rOld, rAdjusted>>
    /\ UNCHANGED notRemap

\* the user replaces everything after the first c characters
EditTail ==
    /\ rPc = "braced"
    /\ \E c \in 0..Len(rOld), tail \in TailPool :
          rNew' = Slice(rOld, 0, c) \o tail
    /\ rPc' = "edited"
    /\ UNCHANGED <<rText, rRanges, rOld, rAdjusted>>
    /\ UNCHANGED notRemap

AdjustPartTable ==
    /\ rPc = "edited"
    /\ rAdjusted' = adjust_part_table(rRanges, rOld, rNew)
    /\ rPc' = "adjusted"
    /\ UNCHANGED <<rText, rRanges, rOld, rNew>>
    /\ UNCHANGED notRemap

RemapNext == RemapAnnotate \/ EditText \/ EditTail \/ AdjustPartTable

RemapIdle ==
    /\ rText = <<>> /\ rRanges = <<>> /\ rOld = <<>> /\ rNew = <<>>
    /\ rAdjusted = <<>> /\ rPc = "plain"


(***************************************************************************)
(* core/build_braced.py: build_braced.  A file of the extracted folder is  *)
(* [exists, content]; the message of the result is kept as its kind and,   *)
(* for "Missing files: ...", the names it lists.                           *)
(***************************************************************************)
MaxBracedDescs == 2     \* most descriptions in the folder

Absent == [exists |-> FALSE, content |-> <<>>]
File(c) == [exists |-> TRUE, content |-> c]

DescArtifact == "CARD_Desc.bytes.dec or CARD_Desc.bytes.dec.json"
PidxArtifact == "Card_Pidx.bytes.dec"
PartArtifact == "Card_Part.bytes.dec"

\* the list cut after the first missing artifact
MissingFirstOnly(desc_json, desc_dec, pidx_dec, part_dec) ==
    IF ~desc_json.exists /\ ~desc_dec.exists THEN <<DescArtifact>>
    ELSE IF ~pidx_dec.exists THEN <<PidxArtifact>>
    ELSE IF ~part_dec.exists THEN <<PartArtifact>>
    ELSE <<>>

\* the list missing of lines 15-21
Missing(desc_json, desc_dec, pidx_dec, part_dec) ==
    (IF ~desc_json.exists /\ ~desc_dec.exists THEN <<DescArtifact>> ELSE <<>>)
    \o (IF ~pidx_dec.exists THEN <<PidxArtifact>> ELSE <<>>)
    \o (IF ~part_dec.exists THEN <<PartArtifact>> ELSE <<>>)

RECURSIVE SplitNulNul(_, _)
\* raw.split("\x00\x00"): the pieces, cur being the piece under way
SplitNulNul(raw, cur) ==
    IF raw = <<>> THEN <<cur>>
    ELSE IF Len(raw) >= 2 /\ raw[1] = 0 /\ raw[2] = 0
         THEN <<cur>> \o SplitNulNul(SubSeq(raw, 3, Len(raw)), <<>>)
    ELSE SplitNulNul(Tail(raw), Append(cur, Head(raw)))

\* [s for s in raw.split("\x00\x00") if s]
DescsOfDec(bytes) ==
    SelectSeq(SplitNulNul(Utf8Decode(bytes), <<>>), LAMBDA s : s # <<>>)

\* get_pidx_table raises IndexError on an empty file and on a last group
\* of fewer than 4 bytes
PidxRaises(pidx) == Len(pidx) < 4 \/ Len(pidx) % 4 # 0

\* braced[i] of the loop of lines 40-47
BracedList(descList, part_table) ==
    [i \in 1..Len(descList) |->
        insert_braces(descList[i], IF i <= Len(part_table) THEN part_table[i] ELSE <<>>)]

Result(ok, kind, missing) == [ok |-> ok, kind |-> kind, missing |-> missing]

\* build_braced(extracted_folder): the result, the files read and the
\* braced JSON afterwards
build_braced(desc_json, desc_dec, pidx_dec, part_dec, out) ==
    LET missing == Missing(desc_json, desc_dec, pidx_dec, part_dec)
        descList == IF desc_json.exists THEN desc_json.content
                 ELSE DescsOfDec(desc_dec.content)
        descFile == IF desc_json.exists THEN "CARD_Desc.bytes.dec.json"
                    ELSE "CARD_Desc.bytes.dec"
        part_table ==
            IF PidxRaises(pidx_dec.content) THEN Raised
            ELSE get_part_table(part_dec.content, get_pidx_table(pidx_dec.content))
    IN  IF missing # <<>>
        THEN [result |-> Result(FALSE, "Missing files", missing),
              reads |-> {}, out |-> out]
        ELSE IF PidxRaises(pidx_dec.content)
        THEN [result |-> Result(FALSE, "Failed to build part/pidx tables", <<>>),
              reads |-> {descFile, PidxArtifact}, out |-> out]
        ELSE IF part_table.raised
        THEN [result |-> Result(FALSE, "Failed to build part/pidx tables", <<>>),
              reads |-> {descFile, PidxArtifact, PartArtifact}, out |-> out]
        ELSE [result |-> Result(TRUE, "Wrote braced JSON", <<>>),
              reads |-> {descFile, PidxArtifact, PartArtifact},
              out |-> File(BracedList(descList, part_table.table))]

BracedDescPool == {<<97, 98>>, <<97, 233, 98>>}
BracedPidxPool ==
    {<<0, 0, 0, 0>>, <<0, 0, 0, 0, 1, 0, 0, 16>>, <<0, 0, 0, 0, 0, 0, 0, 0, 1, 0, 0, 1>>,
     <<0, 0, 0, 0, 2, 0, 0, 16>>, <<0, 0, 0>>, <<>>}
BracedPartPool == {<<0, 0, 0, 0>>, <<0, 0, 0, 0, 0, 0, 1, 0>>, <<0, 0, 0, 0, 1, 0, 2, 0>>}

BracedInit ==
    /\ \E ds \in SeqsUpTo(BracedDescPool, MaxBracedDescs) :
          /\ bbDescJson \in {Absent, File(ds)}
          /\ bbDescDec \in {Absent, File(MergedBlob(ds))}
    /\ bbPidx \in {Absent} \cup {File(p) : p \in BracedPidxPool}
    /\ bbPart \in {Absent} \cup {File(p) : p \in BracedPartPool}
    /\ bbOut \in {Absent, File(<<>>)}
    /\ bbReads = {}
    /\ bbResult = Result(FALSE, "", <<>>)
    /\ bbPc = "folder"

BuildBraced ==
    /\ bbPc = "folder"
    /\ LET r == build_braced(bbDescJson, bbDescDec, bbPidx, bbPart, bbOut)
       IN  /\ bbResult' = r.result
           /\ bbReads' = r.reads
           /\ bbOut' = r.out
    /\ bbPc' = "returned"
    /\ UNCHANGED <<bbDescJson, bbDescDec, bbPidx, bbPart>>
    /\ UNCHANGED notBraced

BracedNext == BuildBraced

BracedIdle ==
    /\ bbDescJson = Absent /\ bbDescDec = Absent /\ bbPidx = Absent /\ bbPart = Absent
    /\ bbOut = Absent /\ bbReads = {} /\ bbResult = Result(FALSE, "", <<>>)
    /\ bbPc = "folder"


(***************************************************************************)
(* The key sources: AssetUnpacker._try_decode_all (core/asset_unpacker.py) *)
(* and Encryptor.__init__ / Encryptor.build_mod (core/encryptor.py).  Both *)
(* call find_key_for_encrypted_bytes(data, start=0, max_trials=1<<14); the *)
(* function is defined as (data, start_key=0), so the call raises          *)
(* TypeError before a key is tried, inside a try whose handler catches     *)
(* Exception.  The extracted folder holds CARD_Indx and Card_Part; the     *)
(* other names go through the same loop bodies.                            *)
(***************************************************************************)
MaxGameKey == 2     \* the game key is drawn from 0..MaxGameKey and 5

KeyNames == {"CARD_Indx", "Card_Part"}
MainOutputs == {"CARD_Name", "CARD_Desc", "CARD_Indx"}
OtherOutputs == {"Card_Part"}

NoKey == [has |-> FALSE, val |-> 0]
SomeKey(k) == [has |-> TRUE, val |-> k]

\* the call with the keywords start and max_trials: TypeError
find_key_kw(bytes) == [raised |-> TRUE, key |-> 0]

\* int(keyfile.read_text().strip(), 16) when the file exists
ReadKeyfile(kf) == IF kf.exists THEN SomeKey(kf.content) ELSE NoKey

\* lines 67-78 of _try_decode_all: detection from CARD_Indx.bytes
DetectKey(crypto_key, kf, raw) ==
    IF crypto_key.has \/ ~raw["CARD_Indx"].exists
    THEN [crypto_key |-> crypto_key, keyfile |-> kf]
    ELSE LET r == find_key_kw(raw["CARD_Indx"].content)
         IN  IF r.raised THEN [crypto_key |-> NoKey, keyfile |-> kf]
             ELSE [crypto_key |-> SomeKey(r.key), keyfile |-> File(r.key)]

\* one pass of the loop of lines 80-126 for the buffer name
DecodeOne(name, crypto_key, kf, raw, decs) ==
    LET b == raw[name].content
    IN  IF ~raw[name].exists
        THEN [crypto_key |-> crypto_key, keyfile |-> kf, decs |-> decs]
        ELSE IF ZValid(b)
        THEN [crypto_key |-> crypto_key, keyfile |-> kf,
              decs |-> [decs EXCEPT ![name] = File(ZBody(b))]]
        ELSE IF crypto_key.has /\ decrypt_bytes(b, crypto_key.val).ok
        THEN [crypto_key |-> crypto_key, keyfile |-> kf,
              decs |-> [decs EXCEPT ![name] = File(decrypt_bytes(b, crypto_key.val).out)]]
        ELSE LET r == find_key_kw(b)
             IN  IF r.raised
                 THEN [crypto_key |-> crypto_key, keyfile |-> kf, decs |-> decs]
                 ELSE [crypto_key |-> SomeKey(r.key), keyfile |-> File(r.key),
                       decs |-> [decs EXCEPT ![name] = File(decrypt_bytes(b, r.key).out)]]

RECURSIVE DecodeLoop(_, _, _, _, _)
\* for name in KNOWN, in the order the set is iterated
DecodeLoop(order, crypto_key, kf, raw, decs) ==
    IF order = <<>> THEN [crypto_key |-> crypto_key, keyfile |-> kf, decs |-> decs]
    ELSE LET s == DecodeOne(Head(order), crypto_key, kf, raw, decs)
         IN  DecodeLoop(Tail(order), s.crypto_key, s.keyfile, raw, s.decs)

try_decode_all(order, kf, raw, decs) ==
    LET d == DetectKey(ReadKeyfile(kf), kf, raw)
    IN  DecodeLoop(order, d.crypto_key, d.keyfile, raw, decs)

\* lines 72-84 of build_mod: Encryptor.key when the encryption starts
BuildKey(enc, kf, raw) ==
    IF enc.hasKey
    THEN [key |-> enc.key, source |-> "kept", keyfile |-> kf, searched |-> FALSE]
    ELSE IF raw["CARD_Indx"].exists
    THEN LET r == find_key_kw(raw["CARD_Indx"].content)
         IN  IF r.raised
             THEN [key |-> 0, source |-> "fallback", keyfile |-> kf, searched |-> TRUE]
             ELSE [key |-> r.key, source |-> "search", keyfile |-> File(r.key),
                   searched |-> TRUE]
    ELSE [key |-> 0, source |-> "fallback", keyfile |-> kf, searched |-> FALSE]

\* modded/<name>.bytes.dec of the three merged buffers
MergedDec(js, name) ==
    IF name = "CARD_Name" THEN MergedBlob(js.content[1])
    ELSE IF name = "CARD_Desc" THEN MergedBlob(js.content[2])
    ELSE CardIndxMerge(FinalIndx(js.content[1]), FinalIndx(js.content[2]), 1)

\* lines 93-105: Card_Part is encrypted from its .dec (the changed folder
\* first, then the extracted one), else the raw .bytes are copied
OtherOutput(name, changedDec, extractedDec, raw, k) ==
    IF changedDec.exists THEN File(encrypt_bytes(changedDec.content, k))
    ELSE IF extractedDec.exists THEN File(encrypt_bytes(extractedDec.content, k))
    ELSE IF raw.exists THEN File(raw.content)
    ELSE Absent

\* an entry of the log: which object did it, a cache lookup, a key search or
\* a cache write, whether it succeeded, and the key
Ev(op, ev, ok, k) == [op |-> op, ev |-> ev, ok |-> ok, key |-> k]

\* a search and, after its return, the write of the cache
SearchLog(op, r) ==
    IF r.raised THEN <<Ev(op, "search", FALSE, 0)>>
    ELSE <<Ev(op, "search", TRUE, r.key), Ev(op, "write", TRUE, r.key)>>

\* the log of lines 67-78
DetectLog(crypto_key, raw) ==
    IF crypto_key.has \/ ~raw["CARD_Indx"].exists THEN <<>>
    ELSE SearchLog("pass", find_key_kw(raw["CARD_Indx"].content))

\* the log of one pass of the loop: the per-file search when it is reached
DecodeOneLog(name, crypto_key, raw) ==
    LET b == raw[name].content
    IN  IF ~raw[name].exists \/ ZValid(b) THEN <<>>
        ELSE IF crypto_key.has /\ decrypt_bytes(b, crypto_key.val).ok THEN <<>>
        ELSE SearchLog("pass", find_key_kw(b))

RECURSIVE DecodeLoopLog(_, _, _, _, _)
DecodeLoopLog(order, crypto_key, kf, raw, decs) ==
    IF order = <<>> THEN <<>>
    ELSE LET s == DecodeOne(Head(order), crypto_key, kf, raw, decs)
         IN  DecodeOneLog(Head(order), crypto_key, raw)
             \o DecodeLoopLog(Tail(order), s.crypto_key, s.keyfile, raw, s.decs)

\* the log of _try_decode_all: the cache is looked up first (lines 57-65)
try_decode_all_log(order, kf, raw, decs) ==
    LET c == ReadKeyfile(kf)
        d == DetectKey(c, kf, raw)
    IN  <<Ev("pass", "lookup", c.has, c.val)>>
        \o DetectLog(c, raw)
        \o DecodeLoopLog(order, d.crypto_key, d.keyfile, raw, decs)

\* the log of lines 72-84 of build_mod
BuildLog(enc, raw) ==
    IF enc.hasKey \/ ~raw["CARD_Indx"].exists THEN <<>>
    ELSE SearchLog("encryptor", find_key_kw(raw["CARD_Indx"].content))

\* find_key_for_encrypted_bytes(data, start_key): the first key from start_key
\* on that decodes the buffer; the loop does not return when there is none
find_key(bytes, start_key) ==
    LET hits == {k \in start_key..KeyCap : decrypt_bytes(bytes, k).ok}
    IN  IF hits = {} THEN [returned |-> FALSE, key |-> 0]
        ELSE [returned |-> TRUE, key |-> CHOOSE k \in hits : \A j \in hits : k <= j]

KeyPlainPool == {<<65>>, <<0, 65>>}
\* [names, descs] as loaded from the two json files
KeyJsonPool == { << << <<97>> >>, << <<97, 98>> >> >> }
GameKeys == (0..MaxGameKey) \cup {5}

\* what extracted/<name>.bytes can hold: nothing, a plain zlib stream, a
\* stream encrypted with the game key, or bytes nothing decodes
RawChoices(k) ==
    {Absent, File(<<1, 2, 3>>)}
    \cup {File(ZCompress(p)) : p \in KeyPlainPool}
    \cup {File(encrypt_bytes(p, k)) : p \in KeyPlainPool}

KeysInit ==
    /\ gameKey \in GameKeys
    /\ keyfile \in {Absent, File(gameKey), File(gameKey + 1)}
    /\ keyAtStart = keyfile.exists
    /\ rawFiles \in [KeyNames -> RawChoices(gameKey)]
    /\ decFiles = [n \in KeyNames |-> Absent]
    /\ jsonFiles \in {Absent} \cup {File(j) : j \in KeyJsonPool}
    /\ encryptor = [created |-> FALSE, hasKey |-> FALSE, key |-> 0]
    /\ keySource = "none"
    /\ modFiles = [n \in MainOutputs \cup OtherOutputs |-> Absent]
    /\ modDec = [n \in MainOutputs |-> Absent]
    /\ passDone = FALSE
    /\ built = "no"
    /\ passFirst = FALSE
    /\ searched = FALSE
    /\ folderKeyfile = Absent
    /\ fileSearch = "no"
    /\ keyLog = <<>>

\* Encryptor.__init__, run when the main window is set up
CreateEncryptor ==
    /\ ~encryptor.created
    /\ LET k == ReadKeyfile(keyfile)
       IN  /\ encryptor' = [created |-> TRUE, hasKey |-> k.has, key |-> k.val]
           /\ keySource' = IF k.has THEN "cache" ELSE "none"
           /\ keyLog' = Append(keyLog, Ev("encryptor", "lookup", k.has, k.val))
    /\ UNCHANGED <<folderKeyfile, fileSearch>>
    /\ UNCHANGED <<gameKey, keyfile, keyAtStart, rawFiles, decFiles, jsonFiles,
                   modFiles, modDec, passDone, built, passFirst, searched>>
    /\ UNCHANGED notKeys

\* AssetUnpacker._try_decode_all
TryDecodeAll ==
    /\ ~passDone
    /\ \E order \in {<<"CARD_Indx", "Card_Part">>, <<"Card_Part", "CARD_Indx">>} :
          LET r == try_decode_all(order, keyfile, rawFiles, decFiles)
          IN  /\ decFiles' = r.decs
              /\ keyfile' = r.keyfile
              /\ keyLog' = keyLog \o try_decode_all_log(order, keyfile, rawFiles, decFiles)
    /\ UNCHANGED <<folderKeyfile, fileSearch>>
    /\ passDone' = TRUE
    /\ UNCHANGED <<gameKey, keyAtStart, rawFiles, jsonFiles, encryptor, keySource,
                   modFiles, modDec, built, passFirst, searched>>
    /\ UNCHANGED notKeys

\* Encryptor.build_mod with the json files missing: open() raises
BuildModNoJson ==
    /\ encryptor.created /\ built = "no"
    /\ ~jsonFiles.exists
    /\ built' = "raised"
    /\ UNCHANGED <<folderKeyfile, fileSearch, keyLog>>
    /\ passFirst' = passDone
    /\ UNCHANGED <<gameKey, keyfile, keyAtStart, rawFiles, decFiles, jsonFiles,
                   encryptor, keySource, modFiles, modDec, passDone, searched>>
    /\ UNCHANGED notKeys

\* Encryptor.build_mod
BuildModKeys ==
    /\ encryptor.created /\ built = "no"
    /\ jsonFiles.exists
    /\ LET b == BuildKey(encryptor, keyfile, rawFiles)
       IN  /\ encryptor' = [created |-> TRUE, hasKey |-> TRUE, key |-> b.key]
           /\ keySource' = IF b.source = "kept" THEN keySource ELSE b.source
           /\ keyfile' = b.keyfile
           /\ searched' = b.searched
           /\ keyLog' = keyLog \o BuildLog(encryptor, rawFiles)
           /\ modDec' = [n \in MainOutputs |-> File(MergedDec(jsonFiles, n))]
           /\ modFiles' =
                 [n \in MainOutputs \cup OtherOutputs |->
                     IF n \in MainOutputs
                     THEN File(encrypt_bytes(MergedDec(jsonFiles, n), b.key))
                     ELSE OtherOutput(n, Absent, decFiles[n], rawFiles[n], b.key)]
    /\ built' = "done"
    /\ passFirst' = passDone
    /\ UNCHANGED <<gameKey, keyAtStart, rawFiles, decFiles, jsonFiles, passDone,
                   folderKeyfile, fileSearch>>
    /\ UNCHANGED notKeys

\* find_key_for_encrypted_bytes(data, start_key=0) for each content a buffer
\* of the extracted folder can have
FoundKeyOf ==
    [b \in {f.content : f \in UNION {RawChoices(k) : k \in GameKeys}} |-> find_key(b, 0)]

\* find_crypto_key_for_file(extracted/<name>.bytes)
FindCryptoKeyForFile ==
    /\ fileSearch = "no"
    /\ \E name \in KeyNames :
          /\ rawFiles[name].exists
          /\ LET r == FoundKeyOf[rawFiles[name].content]
             IN  IF r.returned
                 THEN /\ fileSearch' = "returned"
                      /\ folderKeyfile' = File(r.key)
                      /\ keyLog' = keyLog \o <<Ev("file", "search", TRUE, r.key),
                                                Ev("file", "write", TRUE, r.key)>>
                 ELSE /\ fileSearch' = "running"
                      /\ UNCHANGED folderKeyfile
                      /\ keyLog' = Append(keyLog, Ev("file", "search", FALSE, 0))
    /\ UNCHANGED <<gameKey, keyfile, keyAtStart, rawFiles, decFiles, jsonFiles,
                   encryptor, keySource, modFiles, modDec, passDone, built,
                   passFirst, searched>>
    /\ UNCHANGED notKeys

KeysNext ==
    CreateEncryptor \/ TryDecodeAll \/ BuildModNoJson \/ BuildModKeys
    \/ FindCryptoKeyForFile

KeysIdle ==
    /\ gameKey = 0 /\ keyfile = Absent /\ keyAtStart = FALSE
    /\ rawFiles = [n \in KeyNames |-> Absent]
    /\ decFiles = [n \in KeyNames |-> Absent]
    /\ jsonFiles = Absent
    /\ encryptor = [created |-> FALSE, hasKey |-> FALSE, key |-> 0]
    /\ keySource = "none"
    /\ modFiles = [n \in MainOutputs \cup OtherOutputs |-> Absent]
    /\ modDec = [n \in MainOutputs |-> Absent]
    /\ passDone = FALSE /\ built = "no" /\ passFirst = FALSE /\ searched = FALSE
    /\ folderKeyfile = Absent /\ fileSearch = "no" /\ keyLog = <<>>


(***************************************************************************)
(* The editor: CardModule.load_from_folder and write_changed               *)
(* (core/parser.py), MainWindow.on_select, _toggle_braced, save_change and *)
(* build_mod_files (gui/main_window.py), and the Card_Part step of         *)
(* Encryptor.build_mod.  write_changed calls write_json(str(path), list);  *)
(* write_json is defined as (obj, dest), so Path(list) raises TypeError    *)
(* after the changed folder was created and before a file is opened.       *)
(***************************************************************************)
MaxCards == 2

Quote == 34
Backslash == 92
Newline == 10

RECURSIVE CountTopLoop(_, _, _, _)
\* the loop of count_top_level_braces from character i (1-based) on
CountTopLoop(s, i, depth, top_level_count) ==
    IF i > Len(s) THEN top_level_count
    ELSE IF s[i] = LBrace
         THEN CountTopLoop(s, i + 1, depth + 1,
                           IF depth = 0 THEN top_level_count + 1 ELSE top_level_count)
    ELSE IF s[i] = RBrace
         THEN CountTopLoop(s, i + 1, IF depth > 0 THEN depth - 1 ELSE depth, top_level_count)
    ELSE CountTopLoop(s, i + 1, depth, top_level_count)

count_top_level_braces(s) == CountTopLoop(s, 1, 0, 0)

RECURSIVE EscapeQuotes(_)
\* s.replace('"', '\\"')
EscapeQuotes(s) ==
    IF s = <<>> THEN <<>>
    ELSE IF Head(s) = Quote THEN <<Backslash, Quote>> \o EscapeQuotes(Tail(s))
    ELSE <<Head(s)>> \o EscapeQuotes(Tail(s))

\* Text.get("1.0", "end"): the content and the final newline of the widget
WidgetGet(content) == content \o <<Newline>>

RECURSIVE RStripNewline(_)
\* .rstrip("\n")
RStripNewline(s) ==
    IF s # <<>> /\ s[Len(s)] = Newline
    THEN RStripNewline(SubSeq(s, 1, Len(s) - 1)) ELSE s

\* load_from_folder, json case, with the braced json present
LoadWithBraced(nameList, descList, braced_raw) ==
    [names |-> nameList, descs |-> descList,
     braced_descs |-> [i \in 1..Len(braced_raw) |-> EscapeQuotes(braced_raw[i])],
     effect_counts |-> [i \in 1..Len(braced_raw) |-> count_top_level_braces(braced_raw[i])]]

\* load_from_folder, json case, without the braced json
LoadPlain(nameList, descList) ==
    [names |-> nameList, descs |-> descList,
     braced_descs |-> descList,
     effect_counts |-> [i \in 1..Len(descList) |-> 0]]

\* load_from_folder from the .dec buffers: write_json raises after names and
\* descs were assigned; braced_descs and effect_counts keep their values
LoadFromDec(nameList, descList) ==
    [names |-> nameList, descs |-> descList, braced_descs |-> <<>>, effect_counts |-> <<>>]

\* CardModule.write_changed: the files afterwards and whether it raised
write_changed(files, nameList, descList) == [raised |-> TRUE, files |-> files]

\* braced_available of on_select and _toggle_braced
BracedAvailable(cm, idx) == idx < Len(cm.braced_descs)

\* the description on_select and _toggle_braced put into the widget
ShownDesc(cm, idx, show) ==
    IF show /\ BracedAvailable(cm, idx) THEN cm.braced_descs[idx + 1]
    ELSE IF idx < Len(cm.descs) THEN cm.descs[idx + 1] ELSE <<>>

\* expected of save_change
Expected(cm, idx) == IF idx < Len(cm.effect_counts) THEN cm.effect_counts[idx + 1] ELSE 0

\* the mismatch test of the braced view, greater only
NeedConfirmMore(user_effects, expected) == user_effects > expected
\* user_effects != expected
NeedConfirm(user_effects, expected) == user_effects # expected

HasBrace(s) == \E i \in 1..Len(s) : s[i] = LBrace \/ s[i] = RBrace

\* save_change for the selected row idx, with the count expected; ok is the
\* answer the user gives when a dialog is shown
SaveWith(cm, files, idx, show, nameW, descW, expected, ok) ==
    LET new_name == Strip(WidgetGet(nameW))
        new_desc_raw == RStripNewline(WidgetGet(descW))
        user_effects == count_top_level_braces(new_desc_raw)
        dialog == IF show
                  THEN IF NeedConfirm(user_effects, expected) THEN "mismatch" ELSE "none"
                  ELSE IF HasBrace(new_desc_raw) THEN "braces" ELSE "none"
        new_desc == IF show THEN make_unbraced(new_desc_raw) ELSE new_desc_raw
        w == write_changed(files, [cm.names EXCEPT ![idx + 1] = new_name],
                           [cm.descs EXCEPT ![idx + 1] = new_desc])
    IN  IF dialog # "none" /\ ~ok
        THEN [cardmod |-> cm, files |-> files, asked |-> dialog, answer |-> "no",
              result |-> "declined"]
        ELSE [cardmod |-> [cm EXCEPT !.descs[idx + 1] = new_desc,
                                     !.names[idx + 1] = new_name],
              files |-> w.files,
              asked |-> dialog,
              answer |-> IF dialog = "none" THEN "none" ELSE "yes",
              result |-> IF w.raised THEN "TypeError" ELSE "saved"]

save_change(cm, files, idx, show, nameW, descW, ok) ==
    SaveWith(cm, files, idx, show, nameW, descW, Expected(cm, idx), ok)

\* the json build_mod loads: the changed folder first
BuildJson(changed, extracted) == IF changed.exists THEN changed ELSE extracted

\* the Card_Part ranges of one card list, as the Part buffer holds them
PartDecOf(table) == write_part_file(table).bytes

CardNamePool == {<<78>>}
CardDescPool == {<<97, 98, 99, 100>>, <<34, 97, 98, 99>>}
CardRangesPool == {<<>>, << <<0, 1>> >>, << <<0, 1>>, <<2, 3>> >>}
EditKeys == {5}

\* what the user can make of the text in the description widget
DescEdits(t) ==
    {t, make_unbraced(t), <<120>> \o t, t \o <<LBrace, 120, RBrace>>, <<LBrace>> \o t,
     <<LBrace, 120, RBrace, LBrace, 121, RBrace>> \o t, t \o <<Newline, Newline>>}

NameEdits == {<<32, 77, 32>>}

EditInit ==
    /\ \E n \in 1..MaxCards :
          \E descList \in [1..n -> CardDescPool], table \in [1..n -> CardRangesPool] :
             LET nameList == [i \in 1..n |-> <<78>>]
             IN  /\ partTableOf = table
                 /\ \/ /\ extractedJson = File(<<nameList, descList>>)
                       /\ cardmod = LoadWithBraced(nameList, descList,
                                                   BracedList(descList, table))
                    \/ /\ extractedJson = File(<<nameList, descList>>)
                       /\ cardmod = LoadPlain(nameList, descList)
                    \/ /\ extractedJson = Absent
                       /\ cardmod = LoadFromDec(nameList, descList)
    /\ changedJson = Absent
    /\ changedPart = Absent
    /\ selected = -1
    /\ show_braced = FALSE
    /\ name_text = <<>>
    /\ desc_text = <<>>
    /\ shownBraced = <<>>
    /\ asked = "none"
    /\ answer = "none"
    /\ saveResult = "none"
    /\ editKey \in EditKeys
    /\ moddedPart = Absent
    /\ buildResult = "none"
    /\ builtAfterSave = FALSE
    /\ epc = "loaded"

\* MainWindow.on_select
OnSelect ==
    /\ epc \in {"loaded", "selected"}
    /\ \E idx \in 0..(Len(cardmod.names) - 1) :
          /\ selected' = idx
          /\ name_text' = cardmod.names[idx + 1]
          /\ desc_text' = ShownDesc(cardmod, idx, show_braced)
          /\ shownBraced' = IF show_braced /\ BracedAvailable(cardmod, idx)
                            THEN cardmod.braced_descs[idx + 1] ELSE <<>>
    /\ epc' = "selected"
    /\ UNCHANGED <<cardmod, partTableOf, extractedJson, changedJson, changedPart,
                   show_braced, asked, answer, saveResult, editKey, moddedPart,
                   buildResult, builtAfterSave>>
    /\ UNCHANGED notEdit

\* the checkbox flips show_braced_var, then MainWindow._toggle_braced runs
ToggleBraced ==
    /\ epc \in {"loaded", "selected", "typed"}
    /\ LET show == ~show_braced
       IN  IF selected = -1
           THEN /\ show_braced' = show
                /\ UNCHANGED <<desc_text, shownBraced>>
           ELSE IF show /\ ~BracedAvailable(cardmod, selected)
           THEN /\ show_braced' = FALSE
                /\ UNCHANGED <<desc_text, shownBraced>>
           ELSE /\ show_braced' = show
                /\ desc_text' = ShownDesc(cardmod, selected, show)
                /\ shownBraced' = IF show THEN cardmod.braced_descs[selected + 1] ELSE <<>>
    /\ epc' = IF epc = "typed" /\ desc_text' # desc_text THEN "selected" ELSE epc
    /\ UNCHANGED <<cardmod, partTableOf, extractedJson, changedJson, changedPart,
                   selected, name_text, asked, answer, saveResult, editKey,
                   moddedPart, buildResult, builtAfterSave>>
    /\ UNCHANGED notEdit

\* the user edits the two widgets
TypeText ==
    /\ epc = "selected"
    /\ name_text' \in NameEdits \cup {name_text}
    /\ desc_text' \in DescEdits(desc_text)
    /\ epc' = "typed"
    /\ UNCHANGED <<cardmod, partTableOf, extractedJson, changedJson, changedPart,
                   selected, show_braced, shownBraced, asked, answer, saveResult,
                   editKey, moddedPart, buildResult, builtAfterSave>>
    /\ UNCHANGED notEdit

\* MainWindow.save_change without a selection
SaveNoCard ==
    /\ epc = "loaded" /\ selected = -1
    /\ saveResult' = "No card"
    /\ epc' = "saved"
    /\ UNCHANGED <<cardmod, partTableOf, extractedJson, changedJson, changedPart,
                   selected, show_braced, name_text, desc_text, shownBraced, asked,
                   answer, editKey, moddedPart, buildResult, builtAfterSave>>
    /\ UNCHANGED notEdit

\* MainWindow.save_change
SaveChange ==
    /\ epc \in {"selected", "typed"} /\ selected # -1
    /\ \E ok \in BOOLEAN :
          LET r == save_change(cardmod, changedJson, selected, show_braced,
                               name_text, desc_text, ok)
          IN  /\ cardmod' = r.cardmod
              /\ changedJson' = r.files
              /\ asked' = r.asked
              /\ answer' = r.answer
              /\ saveResult' = r.result
    /\ epc' = "saved"
    /\ UNCHANGED <<partTableOf, extractedJson, changedPart, selected, show_braced,
                   name_text, desc_text, shownBraced, editKey, moddedPart, buildResult,
                   builtAfterSave>>
    /\ UNCHANGED notEdit

\* MainWindow.build_mod_files: the dialog, then the task
BuildModFiles ==
    /\ buildResult = "none"
    /\ builtAfterSave' = (saveResult = "TypeError")
    /\ \E out_dir \in {"", "out"} :
          IF out_dir = ""
          THEN /\ buildResult' = "cancelled"
               /\ UNCHANGED changedJson
          ELSE LET w == write_changed(changedJson, cardmod.names, cardmod.descs)
               IN  /\ changedJson' = w.files
                   /\ buildResult' = IF w.raised THEN "Error during build" ELSE "done"
    /\ UNCHANGED <<cardmod, partTableOf, extractedJson, changedPart, selected,
                   show_braced, name_text, desc_text, shownBraced, asked, answer,
                   saveResult, editKey, moddedPart, epc>>
    /\ UNCHANGED notEdit

\* Encryptor.build_mod on the three folders: the Card_Part output
BuildModPart ==
    /\ buildResult = "none"
    /\ builtAfterSave' = (saveResult = "TypeError")
    /\ IF ~BuildJson(changedJson, extractedJson).exists
       THEN /\ buildResult' = "FileNotFoundError"
            /\ UNCHANGED moddedPart
       ELSE /\ buildResult' = "done"
            /\ moddedPart' = OtherOutput("Card_Part", changedPart,
                                         File(PartDecOf(partTableOf)), Absent, editKey)
    /\ UNCHANGED <<cardmod, partTableOf, extractedJson, changedJson, changedPart,
                   selected, show_braced, name_text, desc_text, shownBraced, asked,
                   answer, saveResult, editKey, epc>>
    /\ UNCHANGED notEdit

EditNext ==
    OnSelect \/ ToggleBraced \/ TypeText \/ SaveNoCard \/ SaveChange
    \/ BuildModFiles \/ BuildModPart

EditIdle ==
    /\ cardmod = LoadFromDec(<<>>, <<>>)
    /\ partTableOf = <<>>
    /\ extractedJson = Absent /\ changedJson = Absent /\ changedPart = Absent
    /\ selected = -1 /\ show_braced = FALSE
    /\ name_text = <<>> /\ desc_text = <<>> /\ shownBraced = <<>>
    /\ asked = "none" /\ answer = "none" /\ saveResult = "none"
    /\ editKey = 0 /\ moddedPart = Absent /\ buildResult = "none"
    /\ builtAfterSave = FALSE
    /\ epc = "loaded"


(***************************************************************************)
(* count_top_level_braces (core/brace_utils.py), one step per character of *)
(* its for loop.                                                           *)
(***************************************************************************)
MaxCountLen == 4

\* depth -= 1 at every '}'
DepthAfterCloseAlways(depth) == depth - 1
\* if depth > 0: depth -= 1
DepthAfterClose(depth) == IF depth > 0 THEN depth - 1 ELSE depth

\* if depth == 0: top_level_count += 1
TopAfterOpen(depth, top_level_count) ==
    IF depth = 0 THEN top_level_count + 1 ELSE top_level_count

CountChars == {LBrace, RBrace, 65}

\* "A{B{C}D}E" and "{A}{B}"
CountExamples ==
    { <<65, 123, 66, 123, 67, 125, 68, 125, 69>>, <<123, 65, 125, 123, 66, 125>> }

CountInit ==
    /\ ctText \in SeqsUpTo(CountChars, MaxCountLen) \cup CountExamples
    /\ ctPos = 1
    /\ ctDepth = 0
    /\ ctTop = 0
    /\ ctPc = "loop"

\* one pass of the loop body, for c = text[ctPos]
CountStep ==
    /\ ctPc = "loop" /\ ctPos <= Len(ctText)
    /\ LET c == ctText[ctPos]
       IN  IF c = LBrace
           THEN /\ ctTop' = TopAfterOpen(ctDepth, ctTop)
                /\ ctDepth' = ctDepth + 1
           ELSE IF c = RBrace
           THEN /\ ctDepth' = DepthAfterClose(ctDepth)
                /\ UNCHANGED ctTop
           ELSE UNCHANGED <<ctDepth, ctTop>>
    /\ ctPos' = ctPos + 1
    /\ UNCHANGED <<ctText, ctPc>>
    /\ UNCHANGED notCount

\* return top_level_count
CountReturn ==
    /\ ctPc = "loop" /\ ctPos > Len(ctText)
    /\ ctPc' = "returned"
    /\ UNCHANGED <<ctText, ctPos, ctDepth, ctTop>>
    /\ UNCHANGED notCount

CountNext == CountStep \/ CountReturn

CountIdle ==
    /\ ctText = <<>> /\ ctPos = 1 /\ ctDepth = 0 /\ ctTop = 0 /\ ctPc = "loop"


(***************************************************************************)
(* Specifications.                                                         *)
(***************************************************************************)
InitCipher ==
    /\ CipherInit
    /\ CodecIdle
    /\ PidxIdle
    /\ BraceIdle
    /\ PartIdle
    /\ RemapIdle
    /\ BracedIdle
    /\ KeysIdle
    /\ EditIdle
    /\ CountIdle

SpecCipher == InitCipher /\ [][CipherNext]_vars

InitCodec ==
    /\ CodecInit
    /\ CipherIdle
    /\ PidxIdle
    /\ BraceIdle
    /\ PartIdle
    /\ RemapIdle
    /\ BracedIdle
    /\ KeysIdle
    /\ EditIdle
    /\ CountIdle

SpecCodec == InitCodec /\ [][CodecNext]_vars

InitPidx ==
    /\ PidxInit
    /\ CipherIdle
    /\ CodecIdle
    /\ BraceIdle
    /\ PartIdle
    /\ RemapIdle
    /\ BracedIdle
    /\ KeysIdle
    /\ EditIdle
    /\ CountIdle

SpecPidx == InitPidx /\ [][PidxNext]_vars

InitBrace ==
    /\ BraceInit
    /\ CipherIdle
    /\ CodecIdle
    /\ PidxIdle
    /\ PartIdle
    /\ RemapIdle
    /\ BracedIdle
    /\ KeysIdle
    /\ EditIdle
    /\ CountIdle

SpecBrace == InitBrace /\ [][BraceNext]_vars

InitPart ==
    /\ PartInit
    /\ CipherIdle
    /\ CodecIdle
    /\ PidxIdle
    /\ BraceIdle
    /\ RemapIdle
    /\ BracedIdle
    /\ KeysIdle
    /\ EditIdle
    /\ CountIdle

SpecPart == InitPart /\ [][PartNext]_vars

InitRemap ==
    /\ RemapInit
    /\ CipherIdle
    /\ CodecIdle
    /\ PidxIdle
    /\ BraceIdle
    /\ PartIdle
    /\ BracedIdle
    /\ KeysIdle
    /\ EditIdle
    /\ CountIdle

SpecRemap == InitRemap /\ [][RemapNext]_vars

InitBraced ==
    /\ BracedInit
    /\ CipherIdle
    /\ CodecIdle
    /\ PidxIdle
    /\ BraceIdle
    /\ PartIdle
    /\ RemapIdle
    /\ KeysIdle
    /\ EditIdle
    /\ CountIdle

SpecBraced == InitBraced /\ [][BracedNext]_vars

InitKeys ==
    /\ KeysInit
    /\ CipherIdle
    /\ CodecIdle
    /\ PidxIdle
    /\ BraceIdle
    /\ PartIdle
    /\ RemapIdle
    /\ BracedIdle
    /\ EditIdle
    /\ CountIdle

SpecKeys == InitKeys /\ [][KeysNext]_vars

InitEdit ==
    /\ EditInit
    /\ CipherIdle
    /\ CodecIdle
    /\ PidxIdle
    /\ BraceIdle
    /\ PartIdle
    /\ RemapIdle
    /\ BracedIdle
    /\ KeysIdle
    /\ CountIdle

SpecEdit == InitEdit /\ [][EditNext]_vars

InitCount ==
    /\ CountInit
    /\ CipherIdle
    /\ CodecIdle
    /\ PidxIdle
    /\ BraceIdle
    /\ PartIdle
    /\ RemapIdle
    /\ BracedIdle
    /\ KeysIdle
    /\ EditIdle

SpecCount == InitCount /\ [][CountNext]_vars

(***************************************************************************)
(* Claims.                                                                 *)
(***************************************************************************)

\* C1: for every buffer b and key k, decrypt_bytes(encrypt_bytes(b, k), k) = b:
\* whenever the encrypted buffer is decoded with the key it was encrypted
\* with, the decode succeeds and returns the plaintext.
C1_RoundTrip ==
    (stage = "enc" /\ dec.tried /\ dkey = key) => (dec.ok /\ dec.out = plain)

C1_Witness ==
    /\ stage = "enc" /\ dec.tried /\ dkey = key
    /\ key >= 1 /\ Len(plain) >= 2 /\ dec.ok

\* C2: merging equal-length lists of NUL-free names and descriptions with
\* build_mod and splitting the buffers with _progressive_processing (phase 0,
\* phase 4) returns the two lists.
C2_SplitMerge ==
    (cpc = "split" /\ hit = -1) => (outNames = names /\ outDescs = descs)

C2_Witness ==
    /\ cpc = "split" /\ hit = -1
    /\ Len(names) >= 2 /\ names[1] = <<>> /\ descs[1] = <<>>
    /\ descs[2] = <<97, 233>>
    /\ outDescs = descs

\* C5: when find_key_for_encrypted_bytes(data, start_key) returns, it returns
\* the least key k >= start_key for which decrypt_bytes(data, k) succeeds.
C5_LeastKey ==
    spc = "returned" =>
        /\ skey >= sstart
        /\ decrypt_bytes(data, skey).ok
        /\ \A j \in sstart..(skey - 1) : ~decrypt_bytes(data, j).ok

C5_Witness ==
    /\ spc = "returned" /\ stage = "enc"
    /\ sstart = 1 /\ skey > sstart + 1

\* C6 (as claimed): the key search honours a trial bound: a running search has
\* used fewer than MaxTrials trials, and a search that has ended has returned a
\* key or reported key-not-found.
C6_BoundedSearch ==
    /\ spc = "loop" => trials < MaxTrials
    /\ spc \in {"idle", "loop", "returned", "notfound"}

\* C7 (as claimed): a buffer encrypted with key 0 is decoded by no key k' # 0.
C7_OnlyKeyZero ==
    (stage = "enc" /\ key = 0 /\ dec.tried /\ dkey # 0) => ~dec.ok

\* C7 (amended): a buffer encrypted with key 0 is decoded exactly by the keys
\* that are multiples of 256, which return the plaintext; every other key ends
\* in a decode error.
C7_KeyZeroMod256 ==
    (stage = "enc" /\ key = 0 /\ dec.tried) =>
        /\ dec.ok <=> (dkey % 256 = 0)
        /\ dec.ok => dec.out = plain

C7_Witness ==
    /\ stage = "enc" /\ key = 0 /\ dec.tried
    /\ dkey = 256 /\ dec.ok /\ Len(plain) >= 1

\* C8: in the split a record whose offset pair (a, b) has a < 0, b <= a or
\* b > len(blob) decodes to the empty string and the decode goes on: the result
\* has one entry per record, and every record whose two offsets are undamaged
\* decodes to the string that was merged.
C8_Contained ==
    cpc = "split" =>
        LET nOffs == ReadIdxs(indxBuf, 0)
            dOffs == ReadIdxs(indxBuf, 4)
        IN  /\ Len(outNames) = Len(nOffs) - 2
            /\ Len(outDescs) = Len(dOffs) - 2
            /\ Len(outNames) = Len(names)
            /\ Len(outDescs) = Len(descs)
            /\ \A i \in 1..Len(names) :
                  /\ (\/ nOffs[i + 1] < 0
                      \/ nOffs[i + 2] <= nOffs[i + 1]
                      \/ nOffs[i + 2] > Len(nameBlob)) => outNames[i] = <<>>
                  /\ (hit \notin {2 * i, 2 * i + 2}) => outNames[i] = names[i]
            /\ \A i \in 1..Len(descs) :
                  /\ (\/ dOffs[i + 1] < 0
                      \/ dOffs[i + 2] <= dOffs[i + 1]
                      \/ dOffs[i + 2] > Len(descBlob)) => outDescs[i] = <<>>
                  /\ (hit \notin {2 * i + 1, 2 * i + 3}) => outDescs[i] = descs[i]

C8_Witness ==
    /\ cpc = "split" /\ hit = 5
    /\ Len(descs) = 2 /\ descs[1] = <<97, 233>> /\ descs[2] = <<233, 233>>
    /\ ReadIdxs(indxBuf, 4)[3] > Len(descBlob)
    /\ outDescs = << <<>>, <<>> >>
    /\ outNames = names /\ names[2] = <<97>>

\* C9: for n records the merge gives n+2 offsets that start with 4, 8, never
\* decrease, are multiples of 4 and end with the length of the blob; the blob
\* starts with 8 NUL bytes and each record is followed by 0 to 3 NUL bytes.
C9_Layout(list, indx, blob) ==
    /\ Len(indx) = Len(list) + 2
    /\ indx[1] = 4 /\ indx[2] = 8
    /\ \A i \in 1..(Len(indx) - 1) : indx[i] <= indx[i + 1]
    /\ \A i \in 1..Len(indx) : indx[i] % 4 = 0
    /\ indx[Len(indx)] = Len(blob)
    /\ Slice(blob, 0, 8) = Nuls(8)
    /\ \A i \in 1..Len(list) :
          LET rec == Utf8Encode(list[i])
              pad == indx[i + 2] - indx[i + 1] - Len(rec)
          IN  /\ pad \in 0..3
              /\ Slice(blob, indx[i + 1], indx[i + 2]) = rec \o Nuls(pad)

RangeSlice(t, r) == Utf8Decode(Slice(Utf8Encode(t), r[1], r[2] + 1))

BraceFree(t) == \A i \in 1..Len(t) : t[i] # LBrace /\ t[i] # RBrace

\* byte offset p does not fall inside a multi-byte character of t
OnCharBoundary(t, p) ==
    LET b == Utf8Encode(t) IN p >= Len(b) \/ ~IsCont(b[p + 1])

NonDegenerateInBounds(t, rs) ==
    \A i \in 1..Len(rs) : rs[i][1] < rs[i][2] /\ rs[i][2] < Len(Utf8Encode(t))

KeptOnCharBoundaries(t, rs) ==
    \A i \in 1..Len(rs) :
        rs[i][1] < rs[i][2] => /\ OnCharBoundary(t, rs[i][1])
                               /\ OnCharBoundary(t, rs[i][2] + 1)

\* C4 (as claimed): for every brace-free text and every range list, deleting
\* the braces from insert_braces(T, R) gives T.
C4_UnbraceAny ==
    (bpc = "unbraced" /\ BraceFree(text)) => unbraced = text

\* C4 (amended): for every brace-free text and every range list (out-of-bounds
\* ranges included) whose ranges with low < high begin and end on character
\* boundaries, deleting the braces from insert_braces(T, R) gives T.
C4_UnbraceOnBoundaries ==
    (bpc = "unbraced" /\ BraceFree(text) /\ KeptOnCharBoundaries(text, ranges)) =>
        unbraced = text

C4_Witness ==
    /\ bpc = "unbraced"
    /\ text = <<97, 233, 97>>
    /\ ranges = << <<1, 2>>, <<3, 4>> >>
    /\ braced = <<97, 123, 233, 125, 123, 97, 125>>
    /\ unbraced = text

\* C10: get_pidx_table on g >= 1 groups returns g-1 entries; entry i is built
\* from group i+1: its pointer is byte0 + 256*byte1 (0..65535), its two counts
\* are the high and the low nibble of byte 3 (0..15 each); byte 2 plays no part.
\* Bytes 00 00 00 00 02 00 00 10 give the single entry (2, 1, 0).
C10_PidxTable ==
    ppc = "parsed" =>
        /\ Len(pidxTable) = Len(pidxBuf) \div 4 - 1
        /\ \A i \in 1..Len(pidxTable) :
              LET e == pidxTable[i]
                  g == 4 * i
              IN  /\ e[1] \in 0..65535 /\ e[2] \in 0..15 /\ e[3] \in 0..15
                  /\ e[1] % 256 = pidxBuf[g + 1]
                  /\ e[1] \div 256 = pidxBuf[g + 2]
                  /\ 16 * e[2] + e[3] = pidxBuf[g + 4]
        /\ pidxBuf = <<0, 0, 0, 0, 2, 0, 0, 16>> => pidxTable = << <<2, 1, 0>> >>

C10_Witness ==
    /\ ppc = "parsed"
    /\ pidxBuf = <<0, 0, 0, 0, 2, 0, 0, 16, 255, 1, 7, 255>>
    /\ pidxTable = << <<2, 1, 0>>, <<511, 15, 15>> >>

\* C11: get_part_table returns one range list per Pidx entry, in entry
\* order; the list of an entry (ptr, a, b) has a + b ranges, none when all
\* three fields are zero, and its j-th range is the two little-endian 16-bit
\* values in the 4 bytes at offset 4 * (ptr + j) of the Part buffer.  The
\* bytes an entry addresses are in the buffer.
PartAddressed(part, pidx_table) ==
    \A i \in 1..Len(pidx_table) :
       LET e == pidx_table[i]
       IN  e # <<0, 0, 0>> => 4 * (e[1] + e[2] + e[3]) <= Len(part)

C11_PartTable ==
    (partPc = "parsed" /\ PartAddressed(partBuf, partPidx)) =>
        /\ ~partTable.raised
        /\ Len(partTable.table) = Len(partPidx)
        /\ \A i \in 1..Len(partPidx) :
              LET e == partPidx[i]
              IN  /\ Len(partTable.table[i]) =
                        IF e = <<0, 0, 0>> THEN 0 ELSE e[2] + e[3]
                  /\ \A j \in 0..(Len(partTable.table[i]) - 1) :
                        LET o == 4 * (e[1] + j)
                        IN  partTable.table[i][j + 1] =
                               <<partBuf[o + 1] + 256 * partBuf[o + 2],
                                 partBuf[o + 3] + 256 * partBuf[o + 4]>>
        /\ ((partPidx = << <<2, 1, 0>> >> /\ Slice(partBuf, 8, 12) = <<10, 0, 20, 0>>)
               => partTable.table = << << <<10, 20>> >> >>)

C11_Witness ==
    /\ partPc = "parsed"
    /\ partPidx = << <<0, 0, 0>>, <<1, 1, 1>> >>
    /\ partBuf = <<0, 0, 0, 0, 10, 0, 20, 0, 0, 1, 255, 255>>
    /\ partTable.table = << <<>>, << <<10, 20>>, <<256, 65535>> >> >>

\* C12: for a range table whose values fit in 16 bits, write_part_file
\* writes four zero bytes and then every range in record order, returns for
\* record j the pointer 1 + (ranges in the records before j), and
\* get_part_table of the written bytes, with the returned pointer and the
\* range count of each record, gives the table back.
RECURSIVE RangesBefore(_, _)
RangesBefore(table, j) ==
    IF j <= 1 THEN 0 ELSE Len(table[j - 1]) + RangesBefore(table, j - 1)

AllFit16(table) ==
    \A j \in 1..Len(table) : \A n \in 1..Len(table[j]) :
       Fits16(table[j][n][1]) /\ Fits16(table[j][n][2])

C12_WriteReadBack ==
    AllFit16(partIn) =>
        /\ partPc \in {"written", "readback"} =>
              /\ ~partIndices.raised
              /\ Len(partOut) = 4 * (1 + RangesBefore(partIn, Len(partIn) + 1))
              /\ Slice(partOut, 0, 4) = <<0, 0, 0, 0>>
              /\ \A j \in 1..Len(partIn) :
                    /\ partIndices.indices[j] = 1 + RangesBefore(partIn, j)
                    /\ \A n \in 1..Len(partIn[j]) :
                          LET o == 4 * (RangesBefore(partIn, j) + n)
                              r == partIn[j][n]
                          IN  Slice(partOut, o, o + 4) =
                                 <<r[1] % 256, r[1] \div 256, r[2] % 256, r[2] \div 256>>
        /\ partPc = "readback" => (~partBack.raised /\ partBack.table = partIn)

C12_Witness ==
    /\ partPc = "readback"
    /\ partIn = << << <<10, 20>>, <<256, 65535>> >>, << <<10, 20>> >> >>
    /\ partIndices.indices = <<1, 3>>
    /\ partBack.table = partIn

\* Positions in an annotated text, counted in bytes: the k-th brace, and the
\* number of plain bytes before it.
BracePositions(b) == SelectSeq([n \in 1..Len(b) |-> n], LAMBDA n : IsBrace(b[n]))
PlainBefore(b, k) == BracePositions(b)[k] - k

BoundaryValues(rs) ==
    {rs[n][1] : n \in 1..Len(rs)} \cup {rs[n][2] : n \in 1..Len(rs)}
DistinctBoundaries(rs) == Cardinality(BoundaryValues(rs)) = 2 * Len(rs)

\* with distinct boundary values, the brace of boundary v is the one at its
\* rank among the boundary values
RankOf(v, rs) == 1 + Cardinality({x \in BoundaryValues(rs) : x < v})

\* (offset of the first plain byte inside the pair of range n, offset of the
\* last one) in the text b
InsidePair(rs, b, n) ==
    <<PlainBefore(b, RankOf(rs[n][1], rs)), PlainBefore(b, RankOf(rs[n][2], rs)) - 1>>

SameBraces(old, new) == BracesOf(old) = BracesOf(new)

TextOnlyEdit ==
    /\ rPc = "adjusted"
    /\ NonDegenerateInBounds(rText, rRanges)
    /\ DistinctBoundaries(rRanges)
    /\ SameBraces(rOld, rNew)
    /\ \A n \in 1..Len(rRanges) :
          InsidePair(rRanges, Utf8Encode(rNew), n)[1] <=
             InsidePair(rRanges, Utf8Encode(rNew), n)[2]

\* C13 (as claimed): when the edit changes only the plain text between the
\* braces of insert_braces(T, R), R non-degenerate, in bounds, with pairwise
\* distinct boundary values, and every pair still encloses a byte, then
\* adjust_part_table maps every range to (first, last) plain byte offset inside
\* its pair, and insert_braces(new plain text, new ranges) is the edited text.
C13_RemapAny ==
    TextOnlyEdit =>
        /\ \A n \in 1..Len(rRanges) :
              rAdjusted[n] = InsidePair(rRanges, Utf8Encode(rNew), n)
        /\ insert_braces(make_unbraced(rNew), rAdjusted) = rNew

\* C13 (amended): the same for ranges that begin and end on character
\* boundaries of T: every range is mapped to (first, last) plain byte offset
\* inside its pair, and insert_braces(new plain text, new ranges) is the
\* edited text when every pair encloses at least two bytes.
C13_RemapOnBoundaries ==
    (TextOnlyEdit /\ KeptOnCharBoundaries(rText, rRanges)) =>
        /\ \A n \in 1..Len(rRanges) :
              rAdjusted[n] = InsidePair(rRanges, Utf8Encode(rNew), n)
        /\ (\A n \in 1..Len(rRanges) : rAdjusted[n][1] < rAdjusted[n][2]) =>
              insert_braces(make_unbraced(rNew), rAdjusted) = rNew

C13_Witness ==
    /\ rPc = "adjusted"
    /\ rText = <<97, 233, 98>>
    /\ rRanges = << <<1, 2>>, <<0, 3>> >>
    /\ rOld = <<123, 97, 123, 233, 125, 98, 125>>
    /\ rNew = <<120, 123, 233, 121, 123, 233, 121, 125, 120, 125>>
    /\ rAdjusted = << <<4, 6>>, <<1, 7>> >>

RECURSIVE CommonPrefix(_, _)
\* length of the longest common prefix of two byte strings
CommonPrefix(x, y) ==
    IF x = <<>> \/ y = <<>> \/ Head(x) # Head(y) THEN 0
    ELSE 1 + CommonPrefix(Tail(x), Tail(y))

\* the byte position in insert_braces(T, rs) just after the braces written
\* at the end of range n
PairEnd(rs, n) ==
    LET kept == KeptParts(rs)
        e == rs[n][2] + 1
    IN  e + Cardinality({i \in 1..Len(kept) : kept[i][1] <= e})
          + Cardinality({i \in 1..Len(kept) : kept[i][2] + 1 <= e})

\* C14: a range whose braces and enclosed text lie inside a prefix that the
\* old and the new annotated text have in common is returned unchanged by
\* adjust_part_table, whatever the edit does after that prefix.
C14_PrefixUnchanged ==
    (/\ rPc = "adjusted"
     /\ KeptOnCharBoundaries(rText, rRanges)
     /\ \A n \in 1..Len(rRanges) : rRanges[n][2] < Len(Utf8Encode(rText)))
    => \A n \in 1..Len(rRanges) :
          (/\ rRanges[n][1] < rRanges[n][2]
           /\ PairEnd(rRanges, n) <= CommonPrefix(Utf8Encode(rOld), Utf8Encode(rNew)))
          => rAdjusted[n] = rRanges[n]

\* C16: when a required input of build_braced is missing (neither
\* description source, or the Pidx buffer, or the Part buffer), build_braced
\* returns a failure whose message names every missing artifact, reads no
\* table and writes no braced output file.
InputMissing ==
    \/ (~bbDescJson.exists /\ ~bbDescDec.exists)
    \/ ~bbPidx.exists
    \/ ~bbPart.exists

C16_MissingInput ==
    [][(bbPc = "folder" /\ bbPc' = "returned" /\ InputMissing) =>
          /\ ~bbResult'.ok
          /\ bbResult'.kind = "Missing files"
          /\ (~bbDescJson.exists /\ ~bbDescDec.exists) <=>
                (\E n \in 1..Len(bbResult'.missing) : bbResult'.missing[n] = DescArtifact)
          /\ ~bbPidx.exists <=>
                (\E n \in 1..Len(bbResult'.missing) : bbResult'.missing[n] = PidxArtifact)
          /\ ~bbPart.exists <=>
                (\E n \in 1..Len(bbResult'.missing) : bbResult'.missing[n] = PartArtifact)
          /\ bbReads' = {}
          /\ bbOut' = bbOut]_vars

C16_Witness ==
    /\ bbPc = "returned"
    /\ bbDescJson.exists /\ ~bbPidx.exists /\ ~bbPart.exists
    /\ bbResult = Result(FALSE, "Missing files", <<PidxArtifact, PartArtifact>>)
    /\ bbReads = {}
    /\ bbOut = File(<<>>)


(***************************************************************************)
(* C17 - C19: the key sources of the decode pass and of the build.         *)
(***************************************************************************)
\* some key the search is allowed to try decodes the buffer
Decodable(f) ==
    /\ f.exists
    /\ ~ZValid(f.content)
    /\ \E k \in 0..KeyCap : decrypt_bytes(f.content, k).ok

\* C17: after the decode pass every encrypted buffer that some key below the
\* trial cap decodes has its .dec output written, also when the key cache is
\* absent or holds a wrong key.
C17_DecodePass ==
    passDone => \A n \in KeyNames : Decodable(rawFiles[n]) => decFiles[n].exists

C19_NoKeyAborts ==
    (\E n \in MainOutputs : modFiles[n].exists) => keySource \in {"cache", "search"}


(***************************************************************************)
(* C15, C20: saving an edited annotated description, and the build after.  *)
(***************************************************************************)
\* new_desc_raw of save_change, from the state before the save
NewDescRaw == RStripNewline(WidgetGet(desc_text))

\* a save of the selected card in the braced view whose top-level brace count
\* differs from the expected effect count
MismatchSave ==
    /\ epc # "saved" /\ epc' = "saved"
    /\ selected # -1
    /\ show_braced
    /\ count_top_level_braces(NewDescRaw) # Expected(cardmod, selected)

\* the save with the same widgets when the count matches
MatchingSave ==
    SaveWith(cardmod, changedJson, selected, show_braced, name_text, desc_text,
             count_top_level_braces(NewDescRaw), TRUE)

\* C15: a braced save with a brace count that differs from the expected count
\* asks the user; declined, it leaves names, descriptions and the changed
\* json as they were; confirmed, it does what the save with a matching count
\* does, so the mismatch alone does not make it fail.
C15_ConfirmBeforeSave ==
    [][MismatchSave =>
          /\ asked' = "mismatch"
          /\ answer' \in {"yes", "no"}
          /\ (cardmod' # cardmod \/ changedJson' # changedJson) => answer' = "yes"
          /\ answer' = "no" => /\ cardmod' = cardmod
                               /\ changedJson' = changedJson
                               /\ saveResult' = "declined"
          /\ answer' = "yes" => /\ cardmod' = MatchingSave.cardmod
                                /\ changedJson' = MatchingSave.files
                                /\ saveResult' = MatchingSave.result]_vars

C15_Witness ==
    /\ epc = "saved" /\ show_braced /\ asked = "mismatch" /\ answer = "no"
    /\ saveResult = "declined"
    /\ count_top_level_braces(NewDescRaw) < Expected(cardmod, selected)

\* the ranges of the selected card remapped to the braces of the saved text
AdjustedRanges == adjust_part_table(partTableOf[selected + 1], shownBraced, NewDescRaw)

\* C20: after an annotated description was edited and saved and a build was
\* run, the Part buffer the build encrypted holds the remapped ranges of that
\* record.
C20_BuildUsesAdjusted ==
    (/\ epc = "saved" /\ saveResult = "TypeError" /\ show_braced
     /\ HasBrace(shownBraced)
     /\ AdjustedRanges # partTableOf[selected + 1]
     /\ builtAfterSave /\ buildResult \in {"done", "Error during build"})
    => moddedPart =
          File(encrypt_bytes(PartDecOf([partTableOf EXCEPT ![selected + 1] = AdjustedRanges]),
                             editKey))


(***************************************************************************)
(* C21: count_top_level_braces.                                            *)
(***************************************************************************)
RECURSIVE RunningDepth(_, _)
\* the running depth after the first n characters: up by one at '{', down by
\* one at '}' when positive
RunningDepth(s, n) ==
    IF n = 0 THEN 0
    ELSE LET before == RunningDepth(s, n - 1)
         IN  IF s[n] = LBrace THEN before + 1
             ELSE IF s[n] = RBrace /\ before > 0 THEN before - 1
             ELSE before

\* the '{' among the first n characters that are met at depth 0
OpenAtDepth0(s, n) == {i \in 1..n : s[i] = LBrace /\ RunningDepth(s, i - 1) = 0}

\* the text without its '}' that are met at depth 0
WithoutUnmatched(s) ==
    LET keep == {i \in 1..Len(s) : ~(s[i] = RBrace /\ RunningDepth(s, i - 1) = 0)}
        F[i \in 0..Len(s)] ==
            IF i = 0 THEN <<>>
            ELSE IF i \in keep THEN Append(F[i - 1], s[i]) ELSE F[i - 1]
    IN  F[Len(s)]

\* C21: at every point of the loop the depth is the running depth and is
\* never negative, and the count is the number of '{' met at depth 0; the
\* returned count is that number for the whole text, unmatched '}' do not
\* change it, "A{B{C}D}E" gives 1 and "{A}{B}" gives 2.
C21_CountTopLevel ==
    /\ ctDepth >= 0
    /\ ctDepth = RunningDepth(ctText, ctPos - 1)
    /\ ctTop = Cardinality(OpenAtDepth0(ctText, ctPos - 1))
    /\ ctPc = "returned" =>
          /\ ctTop = Cardinality(OpenAtDepth0(ctText, Len(ctText)))
          /\ ctTop = count_top_level_braces(ctText)
          /\ ctTop = count_top_level_braces(WithoutUnmatched(ctText))
          /\ ctText = <<65, 123, 66, 123, 67, 125, 68, 125, 69>> => ctTop = 1
          /\ ctText = <<123, 65, 125, 123, 66, 125>> => ctTop = 2

\* an unmatched '}' was met before a top-level '{', and a nested '{' after it
C21_Witness ==
    /\ ctPc = "returned"
    /\ ctText = <<RBrace, LBrace, LBrace, RBrace>>
    /\ ctTop = 1

(***************************************************************************)
(* C22: the key cache is read before a search and written after it.        *)
(***************************************************************************)
\* every search in the log follows a cache lookup by the same object
ReadBeforeSearch ==
    \A i \in 1..Len(keyLog) :
       keyLog[i].ev = "search" =>
          \E j \in 1..(i - 1) : keyLog[j].ev = "lookup" /\ keyLog[j].op = keyLog[i].op

\* every write in the log follows a search that returned the key written
WriteAfterSuccess ==
    \A i \in 1..Len(keyLog) :
       keyLog[i].ev = "write" =>
          /\ i > 1
          /\ keyLog[i - 1] = Ev(keyLog[i].op, "search", TRUE, keyLog[i].key)

\* C22: on every key-discovery path the key cache is read before any search
\* starts, and it is written only after a search returned, with the key the
\* search returned.
C22_CacheProtocol == ReadBeforeSearch /\ WriteAfterSuccess

(***************************************************************************)
(* C23: the bytes insert_braces writes.                                    *)
(***************************************************************************)
\* the kept ranges that close, and that open, at byte position p
ClosesAt(rs, p) == {i \in 1..Len(rs) : rs[i][1] < rs[i][2] /\ rs[i][2] + 1 = p}
OpensAt(rs, p) == {i \in 1..Len(rs) : rs[i][1] < rs[i][2] /\ rs[i][1] = p}

\* what stands in front of byte position p: one '}' per range closing there,
\* then one '{' per range opening there
InFrontOf(rs, p) ==
    [i \in 1..Cardinality(ClosesAt(rs, p)) |-> RBrace]
    \o [i \in 1..Cardinality(OpensAt(rs, p)) |-> LBrace]

RECURSIVE AnnotatedFrom(_, _, _)
\* the bytes b from position p (0-based) on, each with its braces in front,
\* and the braces in front of the end of the text
AnnotatedFrom(b, rs, p) ==
    IF p >= Len(b) THEN InFrontOf(rs, p)
    ELSE InFrontOf(rs, p) \o <<b[p + 1]>> \o AnnotatedFrom(b, rs, p + 1)

KeptCount(rs) == Cardinality({i \in 1..Len(rs) : rs[i][1] < rs[i][2]})

AnnotatedAsClaimed ==
    /\ Utf8Encode(braced) = AnnotatedFrom(Utf8Encode(text), ranges, 0)
    /\ Len(Utf8Encode(braced)) = Len(Utf8Encode(text)) + 2 * KeptCount(ranges)
    /\ (text = DealText /\ ranges = << <<5, 6>> >>) =>
          braced = <<68, 101, 97, 108, 32, 123, 49, 48, 125, 32, 100, 97, 109, 97, 103, 101, 46>>

\* every kept range ends within the text
KeptInBounds(t, rs) ==
    \A i \in 1..Len(rs) : rs[i][1] < rs[i][2] => rs[i][2] + 1 <= Len(Utf8Encode(t))

\* C23 (as claimed): for every text and range list, insert_braces outputs the
\* bytes of the text in order with, in front of byte position p, one '}' per
\* kept range with high+1 = p and then one '{' per kept range with low = p;
\* the output is 2 * (kept ranges) bytes longer than the text.
C23_InsertAny == bpc = "braced" => AnnotatedAsClaimed

\* C23 (amended): the same, for range lists whose kept ranges end within the
\* text and begin and end on character boundaries.
C23_InsertOnBoundaries ==
    (bpc = "braced" /\ KeptInBounds(text, ranges) /\ KeptOnCharBoundaries(text, ranges))
    => AnnotatedAsClaimed

\* a range closes where the next one opens, next to a dropped range
C23_Witness ==
    /\ bpc = "braced"
    /\ text = <<97, 32, 97, 97>>
    /\ ranges = << <<0, 1>>, <<2, 3>> >>
    /\ braced = <<123, 97, 32, 125, 123, 97, 97, 125>>

(***************************************************************************)
(* C24: _extract_top_level_segments.                                       *)
(***************************************************************************)
\* the positions (1-based) of the '{' met at depth 0
TopOpens(s) == {i \in 1..Len(s) : s[i] = LBrace /\ RunningDepth(s, i - 1) = 0}

\* the '}' that brings the depth back to 0 after the '{' at i; 0 when none does
MatchOf(s, i) ==
    LET closes == {j \in (i + 1)..Len(s) : s[j] = RBrace /\ RunningDepth(s, j) = 0}
    IN  IF closes = {} THEN 0 ELSE CHOOSE j \in closes : \A k \in closes : j <= k

\* the closed top-level pairs in order of appearance, as <<open, close>>
RECURSIVE PairsFrom(_, _)
PairsFrom(s, i) ==
    IF i > Len(s) THEN <<>>
    ELSE IF i \in TopOpens(s) /\ MatchOf(s, i) # 0
         THEN << <<i, MatchOf(s, i)>> >> \o PairsFrom(s, i + 1)
    ELSE PairsFrom(s, i + 1)

\* the content between the braces of pair pr, verbatim
ContentOf(s, pr) == SubSeq(s, pr[1] + 1, pr[2] - 1)

\* the text before the first '{'; none when there is no '{'
PrefixOf(s) ==
    IF \E i \in 1..Len(s) : s[i] = LBrace
    THEN SubSeq(s, 1, (CHOOSE i \in 1..Len(s) :
                          s[i] = LBrace /\ \A j \in 1..(i - 1) : s[j] # LBrace) - 1)
    ELSE <<>>

MaterialAsClaimed ==
    IF Strip(PrefixOf(braced)) = <<>>
    THEN ~segs.material.has
    ELSE segs.material = [has |-> TRUE, text |-> Strip(PrefixOf(braced))]

C25_SameAsCommunity ==
    cpc = "merged" =>
       /\ nameBlob = Utf8Encode(MergedCommunity(names).merge)
       /\ descBlob = Utf8Encode(MergedCommunity(descs).merge)
       /\ nameIndx = FinalIndxCommunity(names)
       /\ descIndx = FinalIndxCommunity(descs)

(***************************************************************************)
(* C26: the keystream has period 256 in the key.                           *)
(***************************************************************************)
\* the keys k of the model for which k + 256 is a key of the model too
ShiftableKeys == 0..(KeyCap - 256)

SamePeriod ==
    \A k \in ShiftableKeys :
       /\ XorTransform(data, k) = XorTransform(data, k + 256)
       /\ decrypt_bytes(data, k).ok <=> decrypt_bytes(data, k + 256).ok

\* C26: for the buffer at hand the XOR transform with k and with k + 256 give
\* the same bytes and decrypt_bytes succeeds for both or for neither; a call
\* of decrypt_bytes gives what the key reduced modulo 256 gives; a search that
\* has returned returned a key below start + 256, and a search that has
\* passed start + 255 runs on a buffer no key decodes.
C26_KeyMod256 ==
    /\ SamePeriod
    /\ dec.tried => dec = decrypt_bytes(data, dkey % 256)
    /\ spc = "returned" => skey < sstart + 256
    /\ (spc = "loop" /\ skey >= sstart + 256) =>
          \A k \in 0..KeyCap : ~decrypt_bytes(data, k).ok

\* a buffer encrypted with key 1000 is found at 1000 % 256
C26_Witness ==
    /\ spc = "returned" /\ stage = "enc" /\ Len(plain) >= 1
    /\ key = 1000 /\ sstart = 1 /\ skey = 232

(***************************************************************************)
(* C27: unbraced_brace_indices.                                            *)
(***************************************************************************)
\* the entry the k-th brace gets: a '{' the plain position of the next
\* non-brace byte, a '}' that of the nearest preceding one, -1 when there is
\* none
EntryAsClaimed(b, k) ==
    LET p == BracePositions(b)[k]
    IN  IF b[p] = LBrace
        THEN IF \E i \in (p + 1)..Len(b) : ~IsBrace(b[i]) THEN PlainBefore(b, k) ELSE -1
        ELSE PlainBefore(b, k) - 1

IndicesAsClaimed(str) ==
    LET b == Utf8Encode(str)
    IN  [k \in 1..Len(BracePositions(b)) |-> EntryAsClaimed(b, k)]

\* the first sentence, for the original and for the edited annotated text
C27_PerBrace ==
    rPc = "adjusted" =>
       /\ unbraced_brace_indices(rOld) = IndicesAsClaimed(rOld)
       /\ unbraced_brace_indices(rNew) = IndicesAsClaimed(rNew)

\* the second sentence
C27_AnnotatedBoundaries ==
    (rPc = "adjusted" /\ BraceFree(rText) /\ NonDegenerateInBounds(rText, rRanges)) =>
       unbraced_brace_indices(rOld) = concated_pairs(rRanges)

\* C27: unbraced_brace_indices returns one entry per brace byte in textual
\* order, a '{' with the plain byte position of the next non-brace byte and a
\* '}' with that of the nearest preceding one (-1 when there is none), and for
\* a brace-free text with non-degenerate in-bounds ranges the entries of the
\* annotated text are the sorted boundaries of the ranges.
C27_BraceIndices == C27_PerBrace /\ C27_AnnotatedBoundaries

(***************************************************************************)
(* C28: adjust_part_table without an edit.                                 *)
(***************************************************************************)
NoEdit == rPc = "adjusted" /\ rNew = rOld

\* C28: when the changed annotated text equals the original one,
\* adjust_part_table returns the ranges of the record unchanged, degenerate
\* and inverted ranges included.
C28_NoEditIdentity == NoEdit => rAdjusted = rRanges

(***************************************************************************)
(* C29: the shape of the adjusted table.                                   *)
(***************************************************************************)
\* C29: adjust_part_table returns for a record as many ranges as it was
\* given, in the same order, and every range with low >= high is returned
\* unchanged; a Part buffer written from the adjusted ranges has the length
\* and the record indices of the one written from the given ranges.
C29_ShapeKept ==
    rPc = "adjusted" =>
       /\ Len(rAdjusted) = Len(rRanges)
       /\ \A n \in 1..Len(rRanges) :
             /\ Len(rAdjusted[n]) = 2
             /\ rRanges[n][1] >= rRanges[n][2] => rAdjusted[n] = rRanges[n]
       /\ LET given == write_part_file(<<rRanges>>)
              written == write_part_file(<<rAdjusted>>)
          IN  ~written.raised =>
                 /\ written.indices = given.indices
                 /\ Len(written.bytes) = Len(given.bytes)

\* an edit moves the regular range; the inverted one next to it stays
C29_Witness ==
    /\ rPc = "adjusted" /\ rNew # rOld
    /\ Len(rRanges) = 2 /\ rRanges[2] = <<3, 1>>
    /\ rRanges[1][1] < rRanges[1][2]
    /\ rAdjusted[1] # rRanges[1]
    /\ rAdjusted[2] = <<3, 1>>

(***************************************************************************)
(* C30: saving from the braced view without an edit.                       *)
(***************************************************************************)
\* save_change runs on the card as on_select or _toggle_braced displayed
\* it in the braced view, and the save is not declined
UneditedBracedSave ==
    /\ SaveChange
    /\ epc = "selected" /\ show_braced
    /\ desc_text = ShownDesc(cardmod, selected, TRUE)
    /\ saveResult' # "declined"

\* C30: a card selected in the braced view and saved without an edit keeps
\* the plain description that was loaded.
C30_UneditedSaveKeepsDesc ==
    [][UneditedBracedSave => cardmod'.descs[selected + 1] = cardmod.descs[selected + 1]]_vars

====
